---- MODULE Spec2Model ----
(***************************************************************************)
(* Challenge generation pipeline of Vimle: the orchestrator               *)
(* (generateTodaysChallenge / generateWithRetries / generateStaticFallback)*)
(* over the Gemini service, the static pool and the date hash, and the     *)
(* getTodaysChallenge procedure over the challenge store.                  *)
(***************************************************************************)
EXTENDS Integers, Sequences, FiniteSets, TLC

\* ------------------------------------------------------------------ bounds
\* Largest retry budget an invocation is given (budgets range over -1..MaxRetries).
MaxRetries == 3
\* Fallback results per date the history keeps count of.
MaxFallbackRuns == 2
MaxReqs == 2
\* Atoms after the function head in a piece of generated code.
MaxBody == 4
\* Concurrent callers of getGeminiService.
MaxCallers == 3
\* Characters of a generated date string.
MaxDateLen == 5
\* Calls of a pure function on the same input.
MaxCalls == 2
\* Requests counted in the statistics before the last invocation starts.
MaxTotalRequests == 2
\* Atoms of the last string of a payload.
MaxString == 4
\* Health checks in progress together.
MaxChecks == 2

\* Concurrent generateChallenge calls on one service instance.
MaxGenCalls == 3
\* Calls of the attempt and maintenance procedures.
MaxProcs == 2

\* Invocation slots of generateTodaysChallenge: the process serves one
\* invocation after another, each in the slot the previous one has left.
Invs == {1}

\* -------------------------------------------------------------------- state
VARIABLES
    cfgEnabled,      \* getGeminiConfig().enabled: GEMINI_ENABLED is not "false"
    hasApiKey,       \* Boolean(getGeminiConfig().apiKey)
    enableFallback,  \* getAIConfig().enableFallback
    geminiService,   \* the module-level singleton: TRUE once a client is cached
    clientsCreated,  \* GeminiChallengeService instances constructed so far
    pc,              \* where each invocation stands
    date,            \* options.date of the invocation
    optDifficulty,   \* options.difficulty ("unset" when the caller gives none)
    difficulty,      \* the difficulty in force: the option, or the date's default
    retries,         \* its retry budget
    attemptCount,    \* generateWithRetries: attemptCount
    lastError,       \* generateWithRetries: lastError
    thrown,          \* history: what the latest failed attempt threw into the loop
    calls,           \* external generateContent calls the invocation has issued
    outcomes,        \* what each of those calls ended with: "ok", "retryable", "fatal"
    aborted,         \* controller.signal.aborted of the outstanding call
    waitMs,          \* delay of the setTimeout the invocation sleeps on
    outcome,         \* what the invocation handed to its caller
    fallbacks,       \* history: per date, the static results handed out so far
    today,           \* getTodaysDate() while the requests below are served
    store,           \* rows of the challenges table
    reqPc,           \* where each getTodaysChallenge request stands
    reqChallenge,    \* the challenge a request is about to store
    response,        \* what each request sent back
    parsed,          \* the JSON object found in a response text
    checked,         \* TRUE once generateChallenge has dealt with it
    validation,      \* the ValidationResult of its content
    produced,        \* the challenge built from it, or the error thrown
    callers,         \* where each caller of getGeminiService stands
    rawError,        \* an error handed to handleUnknownError
    classified,      \* what handleUnknownError made of an error
    dateIn,          \* a string given as the date
    poolIn,          \* the pool table the selection reads
    assigned,        \* what getDifficultyForDate returned for it, call after call
    selected,        \* what getChallengeFromPool returned for it, call after call
    serviceAssigned, \* what the challenge service's getDifficultyForDate returned for it
    textIn,          \* a response text handed to parseResponse
    payloadIn,       \* the payload the text was built around
    fieldsIn,        \* the values that the members written in the text denote
    parseOut,        \* what parseResponse returned or threw for it
    stats,           \* this.stats of the cached GeminiChallengeService
    configValidated, \* the module-level flag of validateConfig
    health,          \* the health checks in progress
    svc,             \* one call of ChallengeService.generateTodaysChallenge
    genCalls,        \* where each generateChallenge call on the cached service stands
    attemptRows,     \* rows of the challenge_attempts table
    procs,           \* what the attempt and maintenance procedures answered
    localStored,     \* the attempts list under vimle_challenge_attempts
    clock            \* the instant new Date() reads

\* ------------------------------------------------------- 32-bit arithmetic
\* A 32-bit word is kept as two 16-bit halves, so that the wrap-around of the
\* date hash is computed exactly.
Half == 256 * 256

Word(hi, lo) == [hi |-> hi, lo |-> lo]

\* Two's-complement negation of a word.
NegWord(w) ==
    IF w.lo = 0 THEN Word((Half - w.hi) % Half, 0)
                ELSE Word(Half - 1 - w.hi, Half - w.lo)

\* JS: hash = (hash << 5) - hash + char; hash = hash & hash.
\* (h << 5) wraps to 32 bits, the subtraction and the addition are exact, and
\* the & wraps again: the result is 31*h + c modulo 2^32.
HashStep(w, c) ==
    LET shl == Word((w.hi * 32 + (w.lo * 32) \div Half) % Half, (w.lo * 32) % Half)
        neg == NegWord(w)
        lo1 == shl.lo + neg.lo + c
        hi1 == shl.hi + neg.hi + lo1 \div Half
    IN  Word(hi1 % Half, lo1 % Half)

\* The for loop over the characters of str. Each step's value is bound by a
\* quantifier, so that it is computed once before the next step reads it.
RECURSIVE HashLoop(_, _, _)
HashLoop(str, i, w) ==
    IF i > Len(str) THEN w
    ELSE CHOOSE h \in {HashLoop(str, i + 1, next) : next \in {HashStep(w, str[i])}} : TRUE

\* The sign bit of a word read as a signed 32-bit integer.
IsNegative(w) == w.hi >= Half \div 2

\* Mutant: the sign of the hash is not taken off.
AbsWord_Unsigned(w) == w

\* Math.abs of the signed value, as an unsigned word (abs(-2^31) = 2^31 fits).
AbsWord(w) == IF IsNegative(w) THEN NegWord(w) ELSE w

\* (unsigned value of w) % n, for small n.
WordMod(w, n) == ((w.hi % n) * (Half % n) + w.lo) % n

\* hashString(str): Math.abs of the wrapped polynomial hash.
hashString(str) == AbsWord(HashLoop(str, 1, Word(0, 0)))

\* -------------------------------------------------------------------- dates
\* Calendar dates as the character codes of their YYYY-MM-DD strings.
Date_2025_01_02 == <<50, 48, 50, 53, 45, 48, 49, 45, 48, 50>>
Date_2023_01_05 == <<50, 48, 50, 51, 45, 48, 49, 45, 48, 53>>
Dates == {Date_2025_01_02, Date_2023_01_05}

Difficulties == {"easy", "medium", "hard"}

\* getDifficultyForDate of the orchestrator: |hash| % 10, 40/40/20.
getDifficultyForDate(str) ==
    LET mod == WordMod(hashString(str), 10)
    IN  IF mod < 4 THEN "easy" ELSE IF mod < 8 THEN "medium" ELSE "hard"

\* -------------------------------------------------------------- static pool
PoolEntry(s, c, t) == [startingContent |-> s, content |-> c, title |-> t]

STATIC_CHALLENGE_POOL ==
    [easy |-> <<
        PoolEntry("greet-hi", "hello-world", "Basic Function - Hello World"),
        PoolEntry("add-xy", "sum-ab", "Arrow Function - Sum"),
        PoolEntry("loop-j3", "loop-i5", "Simple Loop"),
        PoolEntry("message-hi", "greeting-hello", "Variables and String Concatenation"),
        PoolEntry("isOdd", "isEven", "Simple Function - Even Check"),
        PoolEntry("nums", "numbers", "Array Basics") >>,
     medium |-> <<
        PoolEntry("fib-s", "fib", "Recursive Function - Fibonacci"),
        PoolEntry("fact-s", "fact", "Recursive Function - Factorial"),
        PoolEntry("prime-s", "prime", "Algorithm - Prime Number Check"),
        PoolEntry("max-s", "max", "Array Processing - Find Maximum"),
        PoolEntry("obj-s", "obj", "Object with Method"),
        PoolEntry("rev-s", "rev", "String Manipulation - Reverse") >>,
     hard |-> <<
        PoolEntry("qsort-s", "qsort", "Algorithm - Quick Sort"),
        PoolEntry("tree-s", "tree", "Data Structure - Binary Tree"),
        PoolEntry("memo-s", "memo", "Higher-Order Function - Memoization"),
        PoolEntry("emitter-s", "emitter", "Design Pattern - Event Emitter"),
        PoolEntry("debounce-s", "debounce", "Utility Function - Debounce"),
        PoolEntry("reduce-s", "reduce", "Async Programming - Reduce") >>]

\* The text of each startingContent and content of the pool, as atoms: every
\* delimiter, blank, line break, "." and run of "=" is an atom, every word the
\* patterns of VALIDATION_RULES look for is an atom wherever it occurs, and the
\* runs of other word characters and of other punctuation are atoms. The
\* backquote is written ~.
PoolText(id) ==
    CASE id = "greet-hi" -> <<
            "function", " ", "greet", "(", ")", " ", "{", "\n", " ", " ", "console", ".",
            "log", "(", "\"", "Hi", ",", " ", "World", "!\"", ")", ";", "\n", "}" >>
      [] id = "hello-world" -> <<
            "function", " ", "hello", "(", ")", " ", "{", "\n", " ", " ", "console", ".",
            "log", "(", "\"", "Hello", ",", " ", "World", "!\"", ")", ";", "\n", "}" >>
      [] id = "add-xy" -> <<
            "const", " ", "add", " ", "=", " ", "(", "x", ",", " ", "y", ")", " ", "=>",
            " ", "{", "\n", " ", " ", "return", " ", "x", " ", "+", " ", "y", ";", "\n",
            "}", ";" >>
      [] id = "sum-ab" -> <<
            "const", " ", "sum", " ", "=", " ", "(", "a", ",", " ", "b", ")", " ", "=>",
            " ", "{", "\n", " ", " ", "return", " ", "a", " ", "+", " ", "b", ";", "\n",
            "}", ";" >>
      [] id = "loop-j3" -> <<
            "for", " ", "(", "let", " ", "j", " ", "=", " ", "0", ";", " ", "j", " ", "<",
            " ", "3", ";", " ", "j", "++", ")", " ", "{", "\n", " ", " ", "console", ".",
            "log", "(", "j", ")", ";", "\n", "}" >>
      [] id = "loop-i5" -> <<
            "for", " ", "(", "let", " ", "i", " ", "=", " ", "0", ";", " ", "i", " ", "<",
            " ", "5", ";", " ", "i", "++", ")", " ", "{", "\n", " ", " ", "console", ".",
            "log", "(", "i", ")", ";", "\n", "}" >>
      [] id = "message-hi" -> <<
            "const", " ", "message", " ", "=", " ", "\"", "Hi", "\";", "\n", "const", " ",
            "person", " ", "=", " ", "\"", "World", "\";", "\n", "console", ".", "log",
            "(", "message", " ", "+", " ", "\"", " ", "\"", " ", "+", " ", "person", ")",
            ";" >>
      [] id = "greeting-hello" -> <<
            "const", " ", "greeting", " ", "=", " ", "\"", "Hello", "\";", "\n", "const",
            " ", "name", " ", "=", " ", "\"", "World", "\";", "\n", "console", ".", "log",
            "(", "greeting", " ", "+", " ", "\"", " ", "\"", " ", "+", " ", "name", ")", ";" >>
      [] id = "isOdd" -> <<
            "function", " ", "isOdd", "(", "number", ")", " ", "{", "\n", " ", " ",
            "return", " ", "number", " ", "%", " ", "2", " ", "===", " ", "1", ";", "\n",
            "}" >>
      [] id = "isEven" -> <<
            "function", " ", "isEven", "(", "num", ")", " ", "{", "\n", " ", " ", "return",
            " ", "num", " ", "%", " ", "2", " ", "===", " ", "0", ";", "\n", "}" >>
      [] id = "nums" -> <<
            "const", " ", "nums", " ", "=", " ", "[", "1", ",", " ", "2", ",", " ", "3",
            "]", ";", "\n", "console", ".", "log", "(", "nums", ".", "length", ")", ";" >>
      [] id = "numbers" -> <<
            "const", " ", "numbers", " ", "=", " ", "[", "1", ",", " ", "2", ",", " ", "3",
            ",", " ", "4", ",", " ", "5", "]", ";", "\n", "console", ".", "log", "(",
            "numbers", ".", "length", ")", ";" >>
      [] id = "fib-s" -> <<
            "function", " ", "fib", "(", "num", ")", " ", "{", "\n", " ", " ", "if", " ",
            "(", "num", " ", "<", "=", " ", "2", ")", " ", "return", " ", "num", ";", "\n",
            " ", " ", "return", " ", "fib", "(", "num", " ", "-", " ", "2", ")", " ", "+",
            " ", "fib", "(", "num", " ", "-", " ", "1", ")", ";", "\n", "}" >>
      [] id = "fib" -> <<
            "function", " ", "fibonacci", "(", "n", ")", " ", "{", "\n", " ", " ", "if",
            " ", "(", "n", " ", "<", "=", " ", "1", ")", " ", "return", " ", "n", ";",
            "\n", " ", " ", "return", " ", "fibonacci", "(", "n", " ", "-", " ", "1", ")",
            " ", "+", " ", "fibonacci", "(", "n", " ", "-", " ", "2", ")", ";", "\n", "}" >>
      [] id = "fact-s" -> <<
            "const", " ", "fact", " ", "=", " ", "(", "num", ")", " ", "=>", " ", "{",
            "\n", " ", " ", "if", " ", "(", "num", " ", "===", " ", "1", ")", " ",
            "return", " ", "1", ";", "\n", " ", " ", "return", " ", "num", " ", "*", " ",
            "fact", "(", "num", " ", "-", " ", "1", ")", ";", "\n", "}", ";" >>
      [] id = "fact" -> <<
            "const", " ", "factorial", " ", "=", " ", "(", "n", ")", " ", "=>", " ", "{",
            "\n", " ", " ", "if", " ", "(", "n", " ", "===", " ", "0", ")", " ", "return",
            " ", "1", ";", "\n", " ", " ", "return", " ", "n", " ", "*", " ", "factorial",
            "(", "n", " ", "-", " ", "1", ")", ";", "\n", "}", ";" >>
      [] id = "prime-s" -> <<
            "function", " ", "checkPrime", "(", "n", ")", " ", "{", "\n", " ", " ", "if",
            " ", "(", "n", " ", "<", " ", "2", ")", " ", "return", " ", "false", ";", "\n",
            " ", " ", "for", " ", "(", "let", " ", "j", " ", "=", " ", "2", ";", " ", "j",
            " ", "<", "=", " ", "n", ";", " ", "j", "++", ")", " ", "{", "\n", " ", " ",
            " ", " ", "if", " ", "(", "n", " ", "%", " ", "j", " ", "===", " ", "0", ")",
            " ", "return", " ", "false", ";", "\n", " ", " ", "}", "\n", " ", " ",
            "return", " ", "false", ";", "\n", "}" >>
      [] id = "prime" -> <<
            "function", " ", "isPrime", "(", "num", ")", " ", "{", "\n", " ", " ", "if",
            " ", "(", "num", " ", "<", "=", " ", "1", ")", " ", "return", " ", "false",
            ";", "\n", " ", " ", "for", " ", "(", "let", " ", "i", " ", "=", " ", "2", ";",
            " ", "i", " ", "<", " ", "num", ";", " ", "i", "++", ")", " ", "{", "\n", " ",
            " ", " ", " ", "if", " ", "(", "num", " ", "%", " ", "i", " ", "===", " ", "0",
            ")", " ", "return", " ", "false", ";", "\n", " ", " ", "}", "\n", " ", " ",
            "return", " ", "true", ";", "\n", "}" >>
      [] id = "max-s" -> <<
            "function", " ", "getMaximum", "(", "array", ")", " ", "{", "\n", " ", " ",
            "let", " ", "maximum", " ", "=", " ", "array", "[", "0", "]", ";", "\n", " ",
            " ", "for", " ", "(", "let", " ", "j", " ", "=", " ", "0", ";", " ", "j", " ",
            "<", " ", "array", ".", "length", ";", " ", "j", "++", ")", " ", "{", "\n",
            " ", " ", " ", " ", "if", " ", "(", "array", "[", "j", "]", " ", "<", " ",
            "maximum", ")", " ", "{", "\n", " ", " ", " ", " ", " ", " ", "maximum", " ",
            "=", " ", "array", "[", "j", "]", ";", "\n", " ", " ", " ", " ", "}", "\n",
            " ", " ", "}", "\n", " ", " ", "return", " ", "maximum", ";", "\n", "}" >>
      [] id = "max" -> <<
            "function", " ", "findMax", "(", "arr", ")", " ", "{", "\n", " ", " ", "let",
            " ", "max", " ", "=", " ", "arr", "[", "0", "]", ";", "\n", " ", " ", "for",
            " ", "(", "let", " ", "i", " ", "=", " ", "1", ";", " ", "i", " ", "<", " ",
            "arr", ".", "length", ";", " ", "i", "++", ")", " ", "{", "\n", " ", " ", " ",
            " ", "if", " ", "(", "arr", "[", "i", "]", " ", ">", " ", "max", ")", " ", "{",
            "\n", " ", " ", " ", " ", " ", " ", "max", " ", "=", " ", "arr", "[", "i", "]",
            ";", "\n", " ", " ", " ", " ", "}", "\n", " ", " ", "}", "\n", " ", " ",
            "return", " ", "max", ";", "\n", "}" >>
      [] id = "obj-s" -> <<
            "const", " ", "user", " ", "=", " ", "{", "\n", " ", " ", "firstName", ":",
            " ", "\"", "Jane", "\",", "\n", " ", " ", "yearsOld", ":", " ", "25", ",",
            "\n", " ", " ", "sayHello", "(", ")", " ", "{", "\n", " ", " ", " ", " ",
            "return", " ", "~", "Hi", ",", " ", "I", "'", "m", " ", "$", "{", "this", ".",
            "firstName", "}", "~;", "\n", " ", " ", "}", "\n", "}", ";" >>
      [] id = "obj" -> <<
            "const", " ", "person", " ", "=", " ", "{", "\n", " ", " ", "name", ":", " ",
            "\"", "John", "\",", "\n", " ", " ", "age", ":", " ", "30", ",", "\n", " ",
            " ", "greet", "(", ")", " ", "{", "\n", " ", " ", " ", " ", "return", " ", "~",
            "Hello", ",", " ", "I", "'", "m", " ", "$", "{", "this", ".", "name", "}",
            "~;", "\n", " ", " ", "}", "\n", "}", ";" >>
      [] id = "rev-s" -> <<
            "function", " ", "reverseText", "(", "string", ")", " ", "{", "\n", " ", " ",
            "let", " ", "result", " ", "=", " ", "\"\";", "\n", " ", " ", "for", " ", "(",
            "let", " ", "j", " ", "=", " ", "string", ".", "length", " ", "-", " ", "1",
            ";", " ", "j", " ", ">", " ", "0", ";", " ", "j", "--", ")", " ", "{", "\n",
            " ", " ", " ", " ", "result", " ", "+", "=", " ", "string", "[", "j", "]", ";",
            "\n", " ", " ", "}", "\n", " ", " ", "return", " ", "result", ";", "\n", "}" >>
      [] id = "rev" -> <<
            "function", " ", "reverseString", "(", "str", ")", " ", "{", "\n", " ", " ",
            "let", " ", "reversed", " ", "=", " ", "\"\";", "\n", " ", " ", "for", " ",
            "(", "let", " ", "i", " ", "=", " ", "str", ".", "length", " ", "-", " ", "1",
            ";", " ", "i", " ", ">", "=", " ", "0", ";", " ", "i", "--", ")", " ", "{",
            "\n", " ", " ", " ", " ", "reversed", " ", "+", "=", " ", "str", "[", "i", "]",
            ";", "\n", " ", " ", "}", "\n", " ", " ", "return", " ", "reversed", ";", "\n",
            "}" >>
      [] id = "qsort-s" -> <<
            "function", " ", "qSort", "(", "array", ")", " ", "{", "\n", " ", " ", "if",
            " ", "(", "array", ".", "length", " ", "<", " ", "1", ")", " ", "return", " ",
            "array", ";", "\n", " ", " ", "const", " ", "mid", " ", "=", " ", "array", "[",
            "Math", ".", "floor", "(", "array", ".", "length", " ", "/", " ", "2", ")",
            "]", ";", "\n", " ", " ", "const", " ", "smaller", " ", "=", " ", "array", ".",
            "filter", "(", "x", " ", "=>", " ", "x", " ", "<", "=", " ", "mid", ")", ";",
            "\n", " ", " ", "const", " ", "bigger", " ", "=", " ", "array", ".", "filter",
            "(", "x", " ", "=>", " ", "x", " ", ">", "=", " ", "mid", ")", ";", "\n", " ",
            " ", "return", " ", "[", ".", ".", ".", "qSort", "(", "smaller", ")", ",", " ",
            "mid", ",", " ", ".", ".", ".", "qSort", "(", "bigger", ")", "]", ";", "\n", "}" >>
      [] id = "qsort" -> <<
            "function", " ", "quickSort", "(", "arr", ")", " ", "{", "\n", " ", " ", "if",
            " ", "(", "arr", ".", "length", " ", "<", "=", " ", "1", ")", " ", "return",
            " ", "arr", ";", "\n", " ", " ", "const", " ", "pivot", " ", "=", " ", "arr",
            "[", "Math", ".", "floor", "(", "arr", ".", "length", " ", "/", " ", "2", ")",
            "]", ";", "\n", " ", " ", "const", " ", "left", " ", "=", " ", "arr", ".",
            "filter", "(", "x", " ", "=>", " ", "x", " ", "<", " ", "pivot", ")", ";",
            "\n", " ", " ", "const", " ", "right", " ", "=", " ", "arr", ".", "filter",
            "(", "x", " ", "=>", " ", "x", " ", ">", " ", "pivot", ")", ";", "\n", " ",
            " ", "return", " ", "[", ".", ".", ".", "quickSort", "(", "left", ")", ",",
            " ", "pivot", ",", " ", ".", ".", ".", "quickSort", "(", "right", ")", "]",
            ";", "\n", "}" >>
      [] id = "tree-s" -> <<
            "class", " ", "TreeNode", " ", "{", "\n", " ", " ", "constructor", "(", "val",
            ")", " ", "{", "\n", " ", " ", " ", " ", "this", ".", "val", " ", "=", " ",
            "val", ";", "\n", " ", " ", " ", " ", "this", ".", "leftChild", " ", "=", " ",
            "null", ";", "\n", " ", " ", " ", " ", "this", ".", "rightChild", " ", "=",
            " ", "null", ";", "\n", " ", " ", "}", "\n", " ", " ", "\n", " ", " ", "add",
            "(", "val", ")", " ", "{", "\n", " ", " ", " ", " ", "if", " ", "(", "val",
            " ", "<", " ", "this", ".", "val", ")", " ", "{", "\n", " ", " ", " ", " ",
            " ", " ", "this", ".", "leftChild", " ", "=", " ", "this", ".", "leftChild",
            " ", "?", " ", "this", ".", "leftChild", ".", "add", "(", "val", ")", " ", ":",
            " ", "new", " ", "TreeNode", "(", "val", ")", ";", "\n", " ", " ", " ", " ",
            "}", " ", "else", " ", "{", "\n", " ", " ", " ", " ", " ", " ", "this", ".",
            "rightChild", " ", "=", " ", "this", ".", "rightChild", " ", "?", " ", "this",
            ".", "rightChild", ".", "add", "(", "val", ")", " ", ":", " ", "new", " ",
            "TreeNode", "(", "val", ")", ";", "\n", " ", " ", " ", " ", "}", "\n", " ",
            " ", " ", " ", "return", " ", "this", ";", "\n", " ", " ", "}", "\n", "}" >>
      [] id = "tree" -> <<
            "class", " ", "BinaryTree", " ", "{", "\n", " ", " ", "constructor", "(",
            "value", ")", " ", "{", "\n", " ", " ", " ", " ", "this", ".", "value", " ",
            "=", " ", "value", ";", "\n", " ", " ", " ", " ", "this", ".", "left", " ",
            "=", " ", "null", ";", "\n", " ", " ", " ", " ", "this", ".", "right", " ",
            "=", " ", "null", ";", "\n", " ", " ", "}", "\n", " ", " ", "\n", " ", " ",
            "insert", "(", "value", ")", " ", "{", "\n", " ", " ", " ", " ", "if", " ",
            "(", "value", " ", "<", " ", "this", ".", "value", ")", " ", "{", "\n", " ",
            " ", " ", " ", " ", " ", "this", ".", "left", " ", "=", " ", "this", ".",
            "left", " ", "?", " ", "this", ".", "left", ".", "insert", "(", "value", ")",
            " ", ":", " ", "new", " ", "BinaryTree", "(", "value", ")", ";", "\n", " ",
            " ", " ", " ", "}", " ", "else", " ", "{", "\n", " ", " ", " ", " ", " ", " ",
            "this", ".", "right", " ", "=", " ", "this", ".", "right", " ", "?", " ",
            "this", ".", "right", ".", "insert", "(", "value", ")", " ", ":", " ", "new",
            " ", "BinaryTree", "(", "value", ")", ";", "\n", " ", " ", " ", " ", "}", "\n",
            " ", " ", " ", " ", "return", " ", "this", ";", "\n", " ", " ", "}", "\n", "}" >>
      [] id = "memo-s" -> <<
            "function", " ", "cache", "(", "func", ")", " ", "{", "\n", " ", " ", "const",
            " ", "stored", " ", "=", " ", "{", "}", ";", "\n", " ", " ", "return", " ",
            "function", "(", ".", ".", ".", "params", ")", " ", "{", "\n", " ", " ", " ",
            " ", "const", " ", "id", " ", "=", " ", "JSON", ".", "string", "if", "y", "(",
            "params", ")", ";", "\n", " ", " ", " ", " ", "if", " ", "(", "stored", "[",
            "id", "]", ")", " ", "{", "\n", " ", " ", " ", " ", " ", " ", "return", " ",
            "stored", "[", "id", "]", ";", "\n", " ", " ", " ", " ", "}", "\n", " ", " ",
            " ", " ", "const", " ", "value", " ", "=", " ", "func", ".", "call", "(",
            "this", ",", " ", ".", ".", ".", "params", ")", ";", "\n", " ", " ", " ", " ",
            "stored", "[", "id", "]", " ", "=", " ", "value", ";", "\n", " ", " ", " ",
            " ", "return", " ", "value", ";", "\n", " ", " ", "}", ";", "\n", "}" >>
      [] id = "memo" -> <<
            "function", " ", "memoize", "(", "fn", ")", " ", "{", "\n", " ", " ", "const",
            " ", "cache", " ", "=", " ", "{", "}", ";", "\n", " ", " ", "return", " ",
            "function", "(", ".", ".", ".", "args", ")", " ", "{", "\n", " ", " ", " ",
            " ", "const", " ", "key", " ", "=", " ", "JSON", ".", "string", "if", "y", "(",
            "args", ")", ";", "\n", " ", " ", " ", " ", "if", " ", "(", "key", " ", "in",
            " ", "cache", ")", " ", "{", "\n", " ", " ", " ", " ", " ", " ", "return", " ",
            "cache", "[", "key", "]", ";", "\n", " ", " ", " ", " ", "}", "\n", " ", " ",
            " ", " ", "const", " ", "result", " ", "=", " ", "fn", ".", "apply", "(",
            "this", ",", " ", "args", ")", ";", "\n", " ", " ", " ", " ", "cache", "[",
            "key", "]", " ", "=", " ", "result", ";", "\n", " ", " ", " ", " ", "return",
            " ", "result", ";", "\n", " ", " ", "}", ";", "\n", "}" >>
      [] id = "emitter-s" -> <<
            "class", " ", "EventDispatcher", " ", "{", "\n", " ", " ", "constructor", "(",
            ")", " ", "{", "\n", " ", " ", " ", " ", "this", ".", "listeners", " ", "=",
            " ", "{", "}", ";", "\n", " ", " ", "}", "\n", " ", " ", "\n", " ", " ",
            "subscribe", "(", "name", ",", " ", "handler", ")", " ", "{", "\n", " ", " ",
            " ", " ", "if", " ", "(", "!", "this", ".", "listeners", "[", "name", "]", ")",
            " ", "{", "\n", " ", " ", " ", " ", " ", " ", "this", ".", "listeners", "[",
            "name", "]", " ", "=", " ", "[", "]", ";", "\n", " ", " ", " ", " ", "}", "\n",
            " ", " ", " ", " ", "this", ".", "listeners", "[", "name", "]", ".", "push",
            "(", "handler", ")", ";", "\n", " ", " ", "}", "\n", " ", " ", "\n", " ", " ",
            "trigger", "(", "name", ",", " ", ".", ".", ".", "params", ")", " ", "{", "\n",
            " ", " ", " ", " ", "if", " ", "(", "this", ".", "listeners", "[", "name", "]",
            ")", " ", "{", "\n", " ", " ", " ", " ", " ", " ", "this", ".", "listeners",
            "[", "name", "]", ".", "map", "(", "handler", " ", "=>", " ", "handler", "(",
            ".", ".", ".", "params", ")", ")", ";", "\n", " ", " ", " ", " ", "}", "\n",
            " ", " ", "}", "\n", "}" >>
      [] id = "emitter" -> <<
            "class", " ", "EventEmitter", " ", "{", "\n", " ", " ", "constructor", "(",
            ")", " ", "{", "\n", " ", " ", " ", " ", "this", ".", "events", " ", "=", " ",
            "{", "}", ";", "\n", " ", " ", "}", "\n", " ", " ", "\n", " ", " ", "on", "(",
            "event", ",", " ", "listener", ")", " ", "{", "\n", " ", " ", " ", " ", "if",
            " ", "(", "!", "this", ".", "events", "[", "event", "]", ")", " ", "{", "\n",
            " ", " ", " ", " ", " ", " ", "this", ".", "events", "[", "event", "]", " ",
            "=", " ", "[", "]", ";", "\n", " ", " ", " ", " ", "}", "\n", " ", " ", " ",
            " ", "this", ".", "events", "[", "event", "]", ".", "push", "(", "listener",
            ")", ";", "\n", " ", " ", "}", "\n", " ", " ", "\n", " ", " ", "emit", "(",
            "event", ",", " ", ".", ".", ".", "args", ")", " ", "{", "\n", " ", " ", " ",
            " ", "if", " ", "(", "this", ".", "events", "[", "event", "]", ")", " ", "{",
            "\n", " ", " ", " ", " ", " ", " ", "this", ".", "events", "[", "event", "]",
            ".", "for", "Each", "(", "listener", " ", "=>", " ", "listener", "(", ".", ".",
            ".", "args", ")", ")", ";", "\n", " ", " ", " ", " ", "}", "\n", " ", " ", "}",
            "\n", "}" >>
      [] id = "debounce-s" -> <<
            "function", " ", "delay", "(", "fn", ",", " ", "delay", ")", " ", "{", "\n",
            " ", " ", "let", " ", "timer", ";", "\n", " ", " ", "return", " ", "function",
            " ", "runDelayed", "(", ".", ".", ".", "params", ")", " ", "{", "\n", " ", " ",
            " ", " ", "const", " ", "execute", " ", "=", " ", "(", ")", " ", "=>", " ",
            "{", "\n", " ", " ", " ", " ", " ", " ", "clearTimeout", "(", "timer", ")",
            ";", "\n", " ", " ", " ", " ", " ", " ", "fn", "(", ".", ".", ".", "params",
            ")", ";", "\n", " ", " ", " ", " ", "}", ";", "\n", " ", " ", " ", " ",
            "clearInterval", "(", "timer", ")", ";", "\n", " ", " ", " ", " ", "timer",
            " ", "=", " ", "setInterval", "(", "execute", ",", " ", "delay", ")", ";",
            "\n", " ", " ", "}", ";", "\n", "}" >>
      [] id = "debounce" -> <<
            "function", " ", "debounce", "(", "func", ",", " ", "wait", ")", " ", "{",
            "\n", " ", " ", "let", " ", "timeout", ";", "\n", " ", " ", "return", " ",
            "function", " ", "executed", "Function", "(", ".", ".", ".", "args", ")", " ",
            "{", "\n", " ", " ", " ", " ", "const", " ", "later", " ", "=", " ", "(", ")",
            " ", "=>", " ", "{", "\n", " ", " ", " ", " ", " ", " ", "clearTimeout", "(",
            "timeout", ")", ";", "\n", " ", " ", " ", " ", " ", " ", "func", "(", ".", ".",
            ".", "args", ")", ";", "\n", " ", " ", " ", " ", "}", ";", "\n", " ", " ", " ",
            " ", "clearTimeout", "(", "timeout", ")", ";", "\n", " ", " ", " ", " ",
            "timeout", " ", "=", " ", "setTimeout", "(", "later", ",", " ", "wait", ")",
            ";", "\n", " ", " ", "}", ";", "\n", "}" >>
      [] id = "reduce-s" -> <<
            "async", " ", "function", " ", "reduceAsync", "(", "arr", ",", " ", "fn", ",",
            " ", "initial", ")", " ", "{", "\n", " ", " ", "let", " ", "result", " ", "=",
            " ", "initial", ";", "\n", " ", " ", "for", " ", "(", "const", " ", "element",
            " ", "of", " ", "arr", ")", " ", "{", "\n", " ", " ", " ", " ", "result", " ",
            "=", " ", "await", " ", "fn", "(", "result", ",", " ", "element", ")", ";",
            "\n", " ", " ", "}", "\n", " ", " ", "return", " ", "result", ";", "\n", "}" >>
      [] id = "reduce" -> <<
            "async", " ", "function", " ", "asyncReduce", "(", "array", ",", " ",
            "callback", ",", " ", "initialValue", ")", " ", "{", "\n", " ", " ", "let",
            " ", "accumulator", " ", "=", " ", "initialValue", ";", "\n", " ", " ", "for",
            " ", "(", "const", " ", "item", " ", "of", " ", "array", ")", " ", "{", "\n",
            " ", " ", " ", " ", "accumulator", " ", "=", " ", "await", " ", "callback",
            "(", "accumulator", ",", " ", "item", ")", ";", "\n", " ", " ", "}", "\n", " ",
            " ", "return", " ", "accumulator", ";", "\n", "}" >>

\* The atoms of more than one character, by their number of characters.
LongAtoms ==
    << {},
       {"!\"", "\",", "\";", "++", "--", "25", "30", "=>", "Hi", "~;", "fn", "id", "if",
        "in", "of", "on"},
       {"\"\";", "===", "add", "age", "arr", "fib", "for", "key", "let", "log", "map",
        "max", "mid", "new", "num", "str", "sum", "val"},
       {"Each", "JSON", "Jane", "John", "Math", "args", "call", "else", "emit", "eval",
        "fact", "func", "item", "left", "name", "null", "nums", "push", "this", "true",
        "user", "wait"},
       {"Hello", "World", "apply", "array", "async", "await", "cache", "class", "const",
        "delay", "event", "false", "floor", "greet", "hello", "isOdd", "later", "pivot",
        "qSort", "right", "timer", "value"},
       {"bigger", "events", "filter", "insert", "isEven", "length", "number", "params",
        "person", "result", "return", "stored", "string"},
       {"console", "element", "execute", "findMax", "handler", "initial", "isPrime",
        "maximum", "memoize", "message", "numbers", "smaller", "timeout", "trigger"},
       {"Function", "TreeNode", "callback", "debounce", "executed", "function", "greeting",
        "listener", "reversed", "sayHello", "yearsOld"},
       {"factorial", "fibonacci", "firstName", "leftChild", "listeners", "quickSort",
        "return 1;", "subscribe"},
       {"BinaryTree", "checkPrime", "function f", "getMaximum", "rightChild", "runDelayed",
        "setTimeout"},
       {"accumulator", "asyncReduce", "constructor", "reduceAsync", "reverseText",
        "setInterval"},
       {"EventEmitter", "clearTimeout", "initialValue"},
       {"clearInterval", "reverseString"},
       {},
       {"EventDispatcher"}
    >>

\* The atoms made of word characters (\w).
WordAtoms ==
    {"0", "1", "2", "25", "3", "30", "4", "5", "BinaryTree", "Each", "EventDispatcher",
     "EventEmitter", "Function", "Hello", "Hi", "I", "JSON", "Jane", "John", "Math",
        "TreeNode", "World", "a", "accumulator", "add", "age", "apply", "args", "arr",
        "array", "async", "asyncReduce", "await", "b", "bigger", "cache", "call",
        "callback", "checkPrime", "class", "clearInterval", "clearTimeout", "console",
        "const", "constructor", "debounce", "delay", "element", "else", "emit", "event",
        "events", "execute", "executed", "fact", "factorial", "false", "fib", "fibonacci",
        "filter", "findMax", "firstName", "floor", "fn", "for", "func", "function",
        "getMaximum", "greet", "greeting", "handler", "hello", "i", "id", "if", "in",
        "initial", "initialValue", "insert", "isEven", "isOdd", "isPrime", "item", "j",
        "key", "later", "left", "leftChild", "length", "let", "listener", "listeners",
        "log", "m", "map", "max", "maximum", "memoize", "message", "mid", "n", "name",
        "new", "null", "num", "number", "numbers", "nums", "of", "on", "params", "person",
        "pivot", "push", "qSort", "quickSort", "reduceAsync", "result", "return",
        "reverseString", "reverseText", "reversed", "right", "rightChild", "runDelayed",
        "sayHello", "setInterval", "setTimeout", "smaller", "stored", "str", "string",
        "subscribe", "sum", "this", "timeout", "timer", "trigger", "true", "user", "val",
        "value", "wait", "x", "y", "yearsOld"}

\* The Error getChallengeFromPool throws for an empty pool, in the place of
\* the entry it would return.
NoChallengesAvailable == PoolEntry("none", "none", "throws")

\* Mutant: an empty pool yields a default entry.
selectFromPool_Default(table, level, index) ==
    LET pool == table[level]
    IN  IF Len(pool) = 0 THEN table.easy[1]
        ELSE pool[WordMod(index, Len(pool)) + 1]

\* getChallengeFromPool reading a given pool table: pool[index % pool.length],
\* or the throw for an empty pool. The index is an unsigned word.
selectFromPool(table, level, index) ==
    LET pool == table[level]
    IN  IF Len(pool) = 0 THEN NoChallengesAvailable
        ELSE pool[WordMod(index, Len(pool)) + 1]

\* getChallengeFromPool(difficulty, index).
getChallengeFromPool(level, index) == selectFromPool(STATIC_CHALLENGE_POOL, level, index)

\* ------------------------------------------------------------ configuration
\* getAIConfig().retryDelay: the default delay between attempts, in ms.
retryDelay == 1000

\* ------------------------------------------------------------------- errors
NoHint == 0 - 1

\* The substrings handleUnknownError looks for in a transport error's message,
\* one tag per if-statement of the chain.
Patterns == {"auth", "rate", "model", "safety", "network", "json", "google"}

\* Retry-after seconds extractRetryAfter can find in a message (NoHint: none).
Hints == {NoHint, 0, 2}

\* Messages matching no pattern, one pattern, or several at once.
PatternSets ==
    {{}} \cup {{x} : x \in Patterns}
    \cup {{"auth", "rate"}, {"auth", "network"}, {"rate", "safety"}}

\* What the transport can throw: the patterns its message matches and the
\* number following "retry"/"wait" in it (read only for a rate-limit message).
RawErrors ==
    {e \in [pats : PatternSets, hint : Hints] : e.hint = NoHint \/ "rate" \in e.pats}

\* A thrown error as the orchestrator sees it. gemini: instanceof
\* GeminiGenerationError; retryAfter: GeminiRateLimitError.retryAfter.
Err(kind, code, gemini, retryable, retryAfter) ==
    [kind |-> kind, code |-> code, gemini |-> gemini,
     retryable |-> retryable, retryAfter |-> retryAfter]

NoError == Err("none", "none", FALSE, FALSE, NoHint)

\* createGeminiError.* factories.
ErrRateLimit(retryAfter) == Err("RateLimit", "RATE_LIMIT", TRUE, TRUE, retryAfter)
ErrInvalidResponse == Err("InvalidResponse", "INVALID_RESPONSE", TRUE, TRUE, NoHint)
ErrValidation == Err("Validation", "VALIDATION_ERROR", TRUE, TRUE, NoHint)
ErrApi(kind, retryable) == Err(kind, "API_ERROR", TRUE, retryable, NoHint)
ErrNetwork == Err("Network", "NETWORK_ERROR", TRUE, TRUE, NoHint)
ErrTimeout == Err("Timeout", "TIMEOUT_ERROR", TRUE, TRUE, NoHint)
\* A plain Error (thrown by getGeminiService or by generateWithRetries itself).
ErrPlain(kind) == Err(kind, "none", FALSE, FALSE, NoHint)

\* handleUnknownError: the ordered chain, first match wins.
\* Mutant: the rate-limit patterns are tested before the auth patterns.
handleUnknownError_RateFirst(raw) ==
    IF "rate" \in raw.pats THEN ErrRateLimit(raw.hint)
    ELSE IF "auth" \in raw.pats THEN ErrApi("AuthError", FALSE)
    ELSE IF "model" \in raw.pats THEN ErrApi("InvalidModel", FALSE)
    ELSE IF "safety" \in raw.pats THEN ErrApi("SafetyBlocked", TRUE)
    ELSE IF "network" \in raw.pats THEN ErrNetwork
    ELSE IF "json" \in raw.pats THEN ErrInvalidResponse
    ELSE ErrApi("Unclassified", TRUE)

handleUnknownError(raw) ==
    IF "auth" \in raw.pats THEN ErrApi("AuthError", FALSE)
    ELSE IF "rate" \in raw.pats THEN ErrRateLimit(raw.hint)
    ELSE IF "model" \in raw.pats THEN ErrApi("InvalidModel", FALSE)
    ELSE IF "safety" \in raw.pats THEN ErrApi("SafetyBlocked", TRUE)
    ELSE IF "network" \in raw.pats THEN ErrNetwork
    ELSE IF "json" \in raw.pats THEN ErrInvalidResponse
    ELSE IF "google" \in raw.pats THEN ErrApi("Unclassified", TRUE)
    ELSE ErrApi("Unclassified", TRUE)

\* Mutant: every GeminiGenerationError is retried.
isRetryableError_Always(e) == e.gemini

\* isRetryableError(error).
isRetryableError(e) == IF e.gemini THEN e.retryable ELSE FALSE

\* getRetryDelay(error): ms, or 0 for null (both are falsy at the call site).
getRetryDelay(e) ==
    IF e.code = "RATE_LIMIT" /\ e.retryAfter # NoHint /\ e.retryAfter # 0
    THEN e.retryAfter * 1000 ELSE 0


\* --------------------------------------------------------------- responses
\* Code the generative service can return in a response.
GenContents == {"gen-a", "gen-b"}

\* What a call that reaches the service can come back with: a response text
\* that parses and validates, one that parses but fails validation, one that
\* does not parse.
Responses ==
    [parses : {TRUE}, valid : BOOLEAN, content : GenContents]
    \cup [parses : {FALSE}, valid : {FALSE}, content : {"garbage"}]

\* ------------------------------------------------------------------ results
Challenge(id, day, startingContent, content, title, level) ==
    [id |-> id, date |-> day, startingContent |-> startingContent,
     content |-> content, title |-> title, difficulty |-> level]

NoChallenge == Challenge(<<>>, <<>>, "none", "none", "none", "none")

\* A GenerationResult.
Result(challenge, generatedBy, retryAttempts, usedFallback) ==
    [challenge |-> challenge, generatedBy |-> generatedBy,
     retryAttempts |-> retryAttempts, usedFallback |-> usedFallback]

NoResult == Result(NoChallenge, "none", 0, FALSE)

\* How an invocation ended: it returned a result or raised an error.
Returned(r) == [status |-> "returned", result |-> r, error |-> NoError]
Raised(e) == [status |-> "raised", result |-> NoResult, error |-> e]
Pending == [status |-> "pending", result |-> NoResult, error |-> NoError]

\* Mutant: the pool index comes from process state instead of the date hash.
generateStaticFallback_Stateful(day, level) ==
    LET staticChallenge == getChallengeFromPool(level, Word(0, clientsCreated))
    IN  Result(Challenge(<<day, "static", level>>, day, "undefined",
                         staticChallenge.content, staticChallenge.title, level),
               "static", 0, TRUE)

\* generateStaticFallback(date, difficulty): the pool entry at hashString(date);
\* the challenge it builds carries no startingContent.
generateStaticFallback(day, level) ==
    LET staticChallenge == getChallengeFromPool(level, hashString(day))
    IN  Result(Challenge(<<day, "static", level>>, day, "undefined",
                         staticChallenge.content, staticChallenge.title, level),
               "static", 0, TRUE)

\* The startingContent and the title that come with a generated content.
GenStarting(c) == IF c = "gen-a" THEN "gen-a-start" ELSE "gen-b-start"
GenTitle(c) == IF c = "gen-a" THEN "gen-a-title" ELSE "gen-b-title"

\* The result generateWithRetries builds from a parsed response.
GeminiResult(day, level, resp, attempts) ==
    Result(Challenge(<<day, "gemini", level>>, day, GenStarting(resp.content),
                     resp.content, GenTitle(resp.content), level),
           "gemini", attempts, FALSE)

\* ------------------------------------------------------------ state tuples
orchVars == <<geminiService, clientsCreated, pc, date, optDifficulty, difficulty, retries,
              attemptCount, lastError, thrown, calls, outcomes, aborted, waitMs,
              outcome, fallbacks>>

srvVars == <<today, store, reqPc, reqChallenge, response>>

genVars == <<parsed, checked, validation, produced>>

cliVars == <<callers>>

clsVars == <<rawError, classified>>

schedVars == <<dateIn, poolIn, assigned, selected, serviceAssigned>>

parseVars == <<textIn, payloadIn, fieldsIn, parseOut>>

statVars == <<stats, configValidated>>

healthVars == <<health>>

svcVars == <<svc>>

statCallVars == <<genCalls>>

dbVars == <<attemptRows, procs>>

localVars == <<localStored, clock>>

extVars == <<svcVars, statCallVars, dbVars, localVars>>

config == <<cfgEnabled, hasApiKey, enableFallback>>

\* Mutant: the API key is not looked at.
isGeminiEnabled_NoKeyCheck == cfgEnabled

\* isGeminiEnabled(): cfg.enabled && Boolean(cfg.apiKey).
isGeminiEnabled == cfgEnabled /\ hasApiKey

vars ==
    <<config, orchVars, srvVars, genVars, cliVars, clsVars, schedVars, parseVars, statVars,
      healthVars, extVars>>

Budgets == (0 - 1) .. MaxRetries

\* options.difficulty as callers give it: absent, or an explicit level.
OptDifficulties == {"unset", "hard"}

Finished(i) == pc[i] \in {"Returned", "Raised"}

\* getTodaysChallenge requests in flight together.
Reqs == 1 .. MaxReqs

InitConfig ==
    /\ cfgEnabled \in BOOLEAN
    /\ hasApiKey \in BOOLEAN
    /\ enableFallback \in BOOLEAN

InitOrch ==
    /\ geminiService = FALSE
    /\ clientsCreated = 0
    /\ pc = [i \in Invs |-> "Idle"]
    /\ date = [i \in Invs |-> <<>>]
    /\ optDifficulty = [i \in Invs |-> "unset"]
    /\ difficulty = [i \in Invs |-> "none"]
    /\ retries = [i \in Invs |-> 0]
    /\ attemptCount = [i \in Invs |-> 0]
    /\ lastError = [i \in Invs |-> NoError]
    /\ thrown = [i \in Invs |-> NoError]
    /\ calls = [i \in Invs |-> 0]
    /\ outcomes = [i \in Invs |-> <<>>]
    /\ aborted = [i \in Invs |-> FALSE]
    /\ waitMs = [i \in Invs |-> 0]
    /\ outcome = [i \in Invs |-> Pending]
    /\ fallbacks = [d \in Dates |-> [results |-> {}, runs |-> 0]]

InitServer(d) ==
    /\ today = d
    /\ store = {}
    /\ reqPc = [r \in Reqs |-> "Idle"]
    /\ reqChallenge = [r \in Reqs |-> NoChallenge]
    /\ response = [r \in Reqs |-> NoChallenge]

\* No response text is under examination.
InitNoText ==
    /\ parsed = [startingContent |-> <<>>, content |-> <<>>]
    /\ checked = TRUE
    /\ validation = [isValid |-> TRUE, errors |-> {}, warnings |-> {}]
    /\ produced = [status |-> "none", error |-> NoError,
                   startingContent |-> <<>>, content |-> <<>>]

\* The orchestrator on its own: no request is ever served.
\* Callers of getGeminiService: generateWithRetries and getAIServicesHealth.
Callers == 1..MaxCallers
CallerKinds == {"generate", "health"}

InitNoCallers == callers = [k \in Callers |-> [pc |-> "Idle", kind |-> "none", got |-> 0]]

\* No transport error yet.
NoRaw == [pats |-> {"none"}, hint |-> NoHint]

InitNoRaw == rawError = NoRaw /\ classified = NoError

\* No response text under study.
NoFields == [title |-> 0, startingContent |-> 0, content |-> 0, explanation |-> 0, blank |-> {}]
NotParsed == [status |-> "none", error |-> NoError, strategy |-> 0, fields |-> NoFields,
              last |-> <<>>]

InitNoParse ==
    textIn = <<>> /\ payloadIn = <<>> /\ fieldsIn = NoFields /\ parseOut = NotParsed

\* A process that has served no request: the statistics as the class
\* initialises them (the average response time and the last error message
\* are left out), the configuration not yet validated.
NoStats == [totalRequests |-> 0, successfulGenerations |-> 0, failures |-> 0]

InitNoStats == stats = NoStats /\ configValidated = FALSE

\* No health check in progress.
Checks == 1..MaxChecks
NoCheck == [pc |-> "Idle", via |-> "none", keyed |-> FALSE, probes |-> 0, probe |-> "none",
            aborted |-> FALSE, status |-> "none", raised |-> FALSE]

InitNoHealth == health = [h \in Checks |-> NoCheck]

NoServiceCall == [pc |-> "none"]

InitNoSvc == svc = NoServiceCall

GenCalls == 1..MaxGenCalls

InitNoGenCalls == genCalls = [c \in GenCalls |-> "Idle"]

InitNoDb == attemptRows = {} /\ procs = <<>>

InitNoLocal == localStored = <<>> /\ clock = 0

InitNoExt == InitNoSvc /\ InitNoGenCalls /\ InitNoDb /\ InitNoLocal

\* No date string under study.
InitNoDate ==
    /\ dateIn = <<>>
    /\ poolIn = STATIC_CHALLENGE_POOL
    /\ assigned = <<>>
    /\ selected = <<>>
    /\ serviceAssigned = <<>>

Init == InitConfig /\ InitOrch /\ InitServer(Date_2025_01_02) /\ InitNoText /\ InitNoCallers /\ InitNoExt /\ InitNoParse /\ InitNoStats /\ InitNoHealth /\ InitNoRaw
    /\ InitNoDate

\* ------------------------------------------------- steps of one invocation
\* The locals of generateWithRetries die when the invocation ends.
DropLocals(i) ==
    /\ attemptCount' = [attemptCount EXCEPT ![i] = 0]
    /\ lastError' = [lastError EXCEPT ![i] = NoError]
    /\ waitMs' = [waitMs EXCEPT ![i] = 0]
    /\ aborted' = [aborted EXCEPT ![i] = FALSE]

\* generateTodaysChallenge hands r to its caller.
Return(i, opt, r) ==
    /\ pc' = [pc EXCEPT ![i] = "Returned"]
    /\ outcome' = [outcome EXCEPT ![i] = Returned(r)]
    /\ fallbacks' =
         IF r.generatedBy = "static" /\ opt = "unset"
         THEN [fallbacks EXCEPT ![r.challenge.date] =
                 [results |-> @.results \cup {r.challenge},
                  runs |-> IF @.runs < MaxFallbackRuns THEN @.runs + 1 ELSE @.runs]]
         ELSE fallbacks
    /\ DropLocals(i)

\* Mutant: the catch block re-throws without looking at enableFallback.
GenerationFailed_Rethrow(i, d, opt, diff, e) ==
    /\ pc' = [pc EXCEPT ![i] = "Raised"]
    /\ outcome' = [outcome EXCEPT ![i] = Raised(e)]
    /\ DropLocals(i)
    /\ UNCHANGED fallbacks

\* Mutant: with fallback disabled a fresh generic error is thrown.
GenerationFailed_Wrapped(i, d, opt, diff, e) ==
    IF enableFallback
    THEN Return(i, opt, generateStaticFallback(d, diff))
    ELSE /\ pc' = [pc EXCEPT ![i] = "Raised"]
         /\ outcome' = [outcome EXCEPT ![i] = Raised(ErrPlain("AllAttemptsFailed"))]
         /\ DropLocals(i)
         /\ UNCHANGED fallbacks

\* Mutant: the catch block falls back without looking at enableFallback.
GenerationFailed_AlwaysFallback(i, d, opt, diff, e) ==
    Return(i, opt, generateStaticFallback(d, diff))

\* generateTodaysChallenge, catch block: generateWithRetries threw e. With
\* fallback enabled the static challenge is returned, otherwise e is re-thrown.
GenerationFailed(i, d, opt, diff, e) ==
    IF enableFallback
    THEN Return(i, opt, generateStaticFallback(d, diff))
    ELSE /\ pc' = [pc EXCEPT ![i] = "Raised"]
         /\ outcome' = [outcome EXCEPT ![i] = Raised(e)]
         /\ DropLocals(i)
         /\ UNCHANGED fallbacks

\* service.generateChallenge -> makeRequest -> model.generateContent(prompt):
\* the call is issued, the abort timer is armed, and the invocation awaits.
\* updateStats(responseTime, success): one more success or failure.
updateStats(st, success) ==
    IF success THEN [st EXCEPT !.successfulGenerations = @ + 1]
    ELSE [st EXCEPT !.failures = @ + 1]

\* generateChallenge counts the request in this.stats before anything else.
IssueRequest(i, issued) ==
    /\ pc' = [pc EXCEPT ![i] = "Requesting"]
    /\ calls' = [calls EXCEPT ![i] = issued + 1]
    /\ aborted' = [aborted EXCEPT ![i] = FALSE]
    /\ stats' = [stats EXCEPT !.totalRequests = @ + 1]

\* Mutant: the last attempt of the budget is not made.
WithinBudget_Strict(count, budget) == count < budget

\* Mutant: one attempt beyond the budget is made.
WithinBudget_Extra(count, budget) == count <= budget + 1

\* generateWithRetries: attemptCount <= retries, the test of the while loop
\* and of the catch block.
WithinBudget(count, budget) == count <= budget

\* generateWithRetries, catch block, once attemptCount is incremented:
\* attemptCount <= retries && isRetryableError(error).
ShouldRetry(count, budget, e) == WithinBudget(count, budget) /\ isRetryableError(e)

\* Mutant: the promise awaited before a retry is never resolved.
AttemptFailed_NeverResumes(i, e) ==
    IF ShouldRetry(attemptCount[i] + 1, retries[i], e)
    THEN /\ lastError' = [lastError EXCEPT ![i] = e]
         /\ attemptCount' = [attemptCount EXCEPT ![i] = @ + 1]
         /\ pc' = [pc EXCEPT ![i] = "Suspended"]
         /\ waitMs' = [waitMs EXCEPT ![i] = 0]
         /\ aborted' = [aborted EXCEPT ![i] = FALSE]
         /\ UNCHANGED <<outcome, fallbacks>>
    ELSE GenerationFailed(i, date[i], optDifficulty[i], difficulty[i], e)

\* Mutant: a retry is issued at once, without the await on the delay.
AttemptFailed_NoWait(i, e) ==
    IF ShouldRetry(attemptCount[i] + 1, retries[i], e) /\ geminiService
    THEN /\ lastError' = [lastError EXCEPT ![i] = e]
         /\ attemptCount' = [attemptCount EXCEPT ![i] = @ + 1]
         /\ pc' = [pc EXCEPT ![i] = "Requesting"]
         /\ waitMs' = [waitMs EXCEPT ![i] = 0]
         /\ aborted' = [aborted EXCEPT ![i] = FALSE]
         /\ UNCHANGED <<outcome, fallbacks>>
    ELSE GenerationFailed(i, date[i], optDifficulty[i], difficulty[i], e)

\* generateWithRetries, catch block: an attempt threw e.
AttemptFailed(i, e) ==
    IF ShouldRetry(attemptCount[i] + 1, retries[i], e)
    THEN /\ lastError' = [lastError EXCEPT ![i] = e]
         /\ attemptCount' = [attemptCount EXCEPT ![i] = @ + 1]
         /\ pc' = [pc EXCEPT ![i] = "Backoff"]
         /\ waitMs' = [waitMs EXCEPT ![i] =
                 IF getRetryDelay(e) # 0 THEN getRetryDelay(e) ELSE retryDelay]
         /\ aborted' = [aborted EXCEPT ![i] = FALSE]
         /\ UNCHANGED <<outcome, fallbacks>>
    ELSE GenerationFailed(i, date[i], optDifficulty[i], difficulty[i], e)

\* The loop body up to its first await that leaves the process: with a cached
\* client the request is issued, otherwise the client module is imported first.
EnterAttempt(i, issued) ==
    IF geminiService
    THEN IssueRequest(i, issued)
    ELSE /\ pc' = [pc EXCEPT ![i] = "Importing"]
         /\ calls' = [calls EXCEPT ![i] = issued]
         /\ UNCHANGED <<aborted, stats>>

\* The destructuring default: difficulty = getDifficultyForDate(date).
DifficultyInForce(d, opt) == IF opt = "unset" THEN getDifficultyForDate(d) ELSE opt

\* generateTodaysChallenge(options) is called: defaults, the enabled check,
\* and generateWithRetries up to its first await.
Invoke(i, d, opt, r) ==
    /\ pc[i] \in {"Idle", "Returned", "Raised"}
    /\ stats.totalRequests < MaxTotalRequests
    /\ configValidated' = TRUE
    /\ \A j \in Invs \ {i} : pc[j] \in {"Idle", "Returned", "Raised"}
    /\ date' = [date EXCEPT ![i] = d]
    /\ optDifficulty' = [optDifficulty EXCEPT ![i] = opt]
    /\ difficulty' = [difficulty EXCEPT ![i] = DifficultyInForce(d, opt)]
    /\ retries' = [retries EXCEPT ![i] = r]
    /\ outcomes' = [outcomes EXCEPT ![i] = <<>>]
    /\ thrown' = [thrown EXCEPT ![i] = NoError]
    /\ IF ~isGeminiEnabled
       THEN /\ Return(i, opt, generateStaticFallback(d, DifficultyInForce(d, opt)))
            /\ calls' = [calls EXCEPT ![i] = 0]
            /\ UNCHANGED stats
       ELSE IF WithinBudget(0, r)
       THEN /\ EnterAttempt(i, 0)
            /\ outcome' = [outcome EXCEPT ![i] = Pending]
            /\ UNCHANGED <<attemptCount, lastError, waitMs, fallbacks>>
       ELSE /\ GenerationFailed(i, d, opt, DifficultyInForce(d, opt),
                                 ErrPlain("AllAttemptsFailed"))
            /\ calls' = [calls EXCEPT ![i] = 0]
            /\ UNCHANGED stats
    /\ UNCHANGED <<config, geminiService, clientsCreated, srvVars, genVars, cliVars, clsVars, schedVars,
                   parseVars, healthVars, extVars>>

\* getGeminiService after the dynamic import: the client is constructed and
\* cached, and the request is issued.
ClientCreated(i) ==
    /\ pc[i] = "Importing"
    /\ geminiService' = TRUE
    /\ clientsCreated' = clientsCreated + 1
    /\ IssueRequest(i, calls[i])
    /\ UNCHANGED <<config, date, optDifficulty, difficulty, retries, attemptCount, lastError,
                   thrown, outcomes, waitMs, outcome, fallbacks, srvVars, genVars, cliVars, clsVars, schedVars,
                   parseVars, configValidated, healthVars, extVars>>

\* getGeminiService throws (the import or the constructor fails): a plain
\* Error reaches the catch block of the loop.
ClientFailed(i) ==
    /\ pc[i] = "Importing"
    /\ thrown' = [thrown EXCEPT ![i] = ErrPlain("ClientConstruction")]
    /\ AttemptFailed(i, ErrPlain("ClientConstruction"))
    /\ UNCHANGED <<config, geminiService, clientsCreated, date, optDifficulty, difficulty, retries,
                   calls, outcomes, srvVars, genVars, cliVars, clsVars, schedVars,
                   parseVars, statVars, healthVars, extVars>>

\* The abort timer of the outstanding call fires: controller.abort(). The
\* signal was never handed to generateContent, so the call stays outstanding.
TimerFired(i) ==
    /\ pc[i] = "Requesting"
    /\ ~aborted[i]
    /\ aborted' = [aborted EXCEPT ![i] = TRUE]
    /\ UNCHANGED <<config, geminiService, clientsCreated, pc, date, optDifficulty, difficulty,
                   retries, attemptCount, lastError, thrown, calls, outcomes, waitMs,
                   outcome, fallbacks, srvVars, genVars, cliVars, clsVars, schedVars,
                   parseVars, statVars, healthVars, extVars>>

\* Mutant: the errors thrown for an unusable response are not retryable.
ResponseError_Fatal(resp) ==
    IF resp.parses THEN Err("Validation", "VALIDATION_ERROR", TRUE, FALSE, NoHint)
    ELSE Err("InvalidResponse", "INVALID_RESPONSE", TRUE, FALSE, NoHint)

\* generateChallenge on a response it cannot use: parseResponse throws an
\* invalid-response error, validateOrThrow a validation error.
ResponseError(resp) == IF resp.parses THEN ErrValidation ELSE ErrInvalidResponse

\* Mutant: a parsed response is returned without content validation.
Accepted_Unvalidated(resp) == resp.parses

\* generateChallenge returns the response when parseResponse and then
\* validateOrThrow have not thrown.
Accepted(resp) == resp.parses /\ resp.valid

\* The service answers with a response text: generateChallenge parses and
\* validates it; generateWithRetries returns the challenge or handles the throw.
Respond(i, resp) ==
    /\ pc[i] = "Requesting"
    /\ outcomes' = [outcomes EXCEPT ![i] =
            Append(@, IF resp.parses /\ resp.valid THEN "ok" ELSE "retryable")]
    /\ IF Accepted(resp)
       THEN /\ UNCHANGED thrown
            /\ stats' = updateStats(stats, TRUE)
            /\ Return(i, optDifficulty[i],
                      GeminiResult(date[i], difficulty[i], resp, attemptCount[i]))
       ELSE /\ thrown' = [thrown EXCEPT ![i] = ResponseError(resp)]
            /\ stats' = updateStats(stats, FALSE)
            /\ AttemptFailed(i, ResponseError(resp))
    /\ UNCHANGED <<config, geminiService, clientsCreated, date, optDifficulty, difficulty, retries,
                   calls, srvVars, genVars, cliVars, clsVars, schedVars,
                   parseVars, configValidated, healthVars, extVars>>

\* makeRequest, catch block: a transport error after the abort timer fired
\* becomes a timeout error, any other one is classified by generateChallenge.
RequestError(raw, isAborted) ==
    IF isAborted THEN ErrTimeout ELSE handleUnknownError(raw)

\* The call throws a transport error.
RespondError(i, raw) ==
    /\ pc[i] = "Requesting"
    /\ LET e == RequestError(raw, aborted[i])
       IN  /\ outcomes' = [outcomes EXCEPT ![i] =
                   Append(@, IF e.gemini /\ e.retryable THEN "retryable" ELSE "fatal")]
           /\ thrown' = [thrown EXCEPT ![i] = e]
           /\ AttemptFailed(i, e)
    /\ stats' = updateStats(stats, FALSE)
    /\ UNCHANGED <<config, geminiService, clientsCreated, date, optDifficulty, difficulty, retries,
                   calls, srvVars, genVars, cliVars, clsVars, schedVars,
                   parseVars, configValidated, healthVars, extVars>>

\* The backoff timer fires and the loop test is made again: the next attempt
\* starts, or the loop is left and lastError is thrown.
BackoffElapsed(i) ==
    /\ pc[i] = "Backoff"
    /\ waitMs' = [waitMs EXCEPT ![i] = 0]
    /\ IF WithinBudget(attemptCount[i], retries[i])
       THEN /\ EnterAttempt(i, calls[i])
            /\ UNCHANGED <<attemptCount, lastError, outcome, fallbacks>>
       ELSE /\ GenerationFailed(i, date[i], optDifficulty[i], difficulty[i], lastError[i])
            /\ UNCHANGED <<calls, stats>>
    /\ UNCHANGED <<config, geminiService, clientsCreated, date, optDifficulty, difficulty, retries,
                   thrown, outcomes, srvVars, genVars, cliVars, clsVars, schedVars,
                   parseVars, configValidated, healthVars, extVars>>

Next ==
    \E i \in Invs :
        \/ \E d \in Dates, opt \in OptDifficulties, r \in Budgets :
              Invoke(i, d, opt, r)
        \/ ClientCreated(i)
        \/ ClientFailed(i)
        \/ TimerFired(i)
        \/ \E resp \in Responses : Respond(i, resp)
        \/ \E raw \in RawErrors : RespondError(i, raw)
        \/ BackoffElapsed(i)

Spec == Init /\ [][Next]_vars

\* The first invocation of a process.
FirstInvoke(i, d, opt, r) == pc[i] = "Idle" /\ Invoke(i, d, opt, r)

\* One invocation from its call to its end.
NextLive ==
    \E i \in Invs :
        \/ \E d \in Dates, opt \in OptDifficulties, r \in Budgets :
              FirstInvoke(i, d, opt, r)
        \/ ClientCreated(i)
        \/ ClientFailed(i)
        \/ TimerFired(i)
        \/ \E resp \in Responses : Respond(i, resp)
        \/ \E raw \in RawErrors : RespondError(i, raw)
        \/ BackoffElapsed(i)

\* What the environment owes invocation i: the end of the import, of the
\* external call, or of the backoff wait it is suspended on.
Settles(i) ==
    \/ ClientCreated(i)
    \/ ClientFailed(i)
    \/ \E resp \in Responses : Respond(i, resp)
    \/ \E raw \in RawErrors : RespondError(i, raw)
    \/ BackoffElapsed(i)

\* One invocation under the scheduling its environment gives it: the client
\* import settles, every external call returns or throws, every timer fires.
SpecLive == Init /\ [][NextLive]_vars /\ \A i \in Invs : WF_vars(Settles(i))

\* ------------------------------------------------- the challenge service
\* getDifficultyForDate of the challenge service: (hash % 1000) / 1000 against
\* the cumulative weights 0.4 / 0.4 / 0.2.
ChallengeService_getDifficultyForDate(str) ==
    LET random == WordMod(hashString(str), 1000)
    IN  IF random < 400 THEN "easy" ELSE IF random < 800 THEN "medium" ELSE "hard"

\* challengeService.generateTodaysChallenge({ forceAI: false }): the test
\* preferAI && isAIEnabled() && !options.forceAI === false is false for
\* forceAI = false, so the static pool is always used.
ChallengeService_generateTodaysChallenge(day) ==
    LET level == ChallengeService_getDifficultyForDate(day)
        staticChallenge == getChallengeFromPool(level, hashString(day))
    IN  Challenge(<<day, "static", level>>, day, "undefined",
                  staticChallenge.content, staticChallenge.title, level)

\* ------------------------------------------------------ getTodaysChallenge
\* The challenges row written by db.challenge.create; of its columns the
\* procedure reads back id, starting_content, content, title and difficulty.
Row(challenge) ==
    [id |-> challenge.id, date |-> challenge.date,
     starting_content |-> IF challenge.startingContent = "undefined"
                          THEN "null" ELSE challenge.startingContent,
     content |-> challenge.content, title |-> challenge.title,
     difficulty |-> challenge.difficulty]

\* The challenge returned from an existing row.
FromRow(row, day) ==
    Challenge(row.id, day,
              IF row.starting_content = "null" THEN "undefined" ELSE row.starting_content,
              row.content, row.title, row.difficulty)

\* Mutant: only the primary key is enforced.
Conflicts_IdOnly(row) == \E x \in store : x.id = row.id

\* The challenges table: primary key id, unique index on date.
Conflicts(row) == \E x \in store : x.id = row.id \/ x.date = row.date

\* What await generateTodaysChallenge() can end with when generation is
\* enabled: a generated challenge, the static fallback, or an error.
OrchestratorOutcomes(day) ==
    {Returned(GeminiResult(day, getDifficultyForDate(day), resp, 0)) :
        resp \in {x \in Responses : x.parses /\ x.valid}}
    \cup (IF enableFallback
          THEN {Returned(generateStaticFallback(day, getDifficultyForDate(day)))}
          ELSE {Raised(ErrNetwork), Raised(ErrApi("Auth", FALSE))})

\* The outer catch block: the ultimate fallback, without storage.
UltimateFallback(r) ==
    /\ response' = [response EXCEPT ![r] = ChallengeService_generateTodaysChallenge(today)]
    /\ reqPc' = [reqPc EXCEPT ![r] = "Done"]
    /\ reqChallenge' = [reqChallenge EXCEPT ![r] = NoChallenge]
    /\ UNCHANGED store

\* A request arrives: today is read and findFirst is issued.
ReqStart(r) ==
    /\ reqPc[r] = "Idle"
    /\ reqPc' = [reqPc EXCEPT ![r] = "Finding"]
    /\ UNCHANGED <<today, store, reqChallenge, response, config, orchVars, genVars, cliVars, clsVars, schedVars,
                   parseVars, statVars, healthVars, extVars>>

\* findFirst settles (dbOk = FALSE: it threw and the error was swallowed).
\* An existing row is returned; otherwise generation starts, or with
\* generation disabled the static challenge is built and its create issued.
FindDone(r, dbOk) ==
    /\ reqPc[r] = "Finding"
    /\ LET found == IF dbOk THEN {x \in store : x.date = today} ELSE {}
       IN  IF found # {}
           THEN /\ response' = [response EXCEPT ![r] = FromRow(CHOOSE x \in found : TRUE, today)]
                /\ reqPc' = [reqPc EXCEPT ![r] = "Done"]
                /\ UNCHANGED reqChallenge
           ELSE IF isGeminiEnabled
           THEN /\ reqPc' = [reqPc EXCEPT ![r] = "Generating"]
                /\ UNCHANGED <<reqChallenge, response>>
           ELSE /\ reqPc' = [reqPc EXCEPT ![r] = "StoringStatic"]
                /\ reqChallenge' = [reqChallenge EXCEPT ![r] =
                        ChallengeService_generateTodaysChallenge(today)]
                /\ UNCHANGED response
    /\ UNCHANGED <<today, store, config, orchVars, genVars, cliVars, clsVars, schedVars,
                   parseVars, statVars, healthVars, extVars>>

\* await generateTodaysChallenge() settles with o: its challenge goes to
\* db.challenge.create, its error to the outer catch block.
GenDone(r, o) ==
    /\ reqPc[r] = "Generating"
    /\ IF o.status = "returned"
       THEN /\ reqChallenge' = [reqChallenge EXCEPT ![r] = o.result.challenge]
            /\ reqPc' = [reqPc EXCEPT ![r] = "Storing"]
            /\ UNCHANGED <<store, response>>
       ELSE UltimateFallback(r)
    /\ UNCHANGED <<today, config, orchVars, genVars, cliVars, clsVars, schedVars,
                   parseVars, statVars, healthVars, extVars>>

\* create of the generated challenge settles; a failure is logged and the
\* challenge is returned all the same.
StoreDone(r, dbOk) ==
    /\ reqPc[r] = "Storing"
    /\ store' = IF dbOk /\ ~Conflicts(Row(reqChallenge[r]))
                THEN store \cup {Row(reqChallenge[r])} ELSE store
    /\ response' = [response EXCEPT ![r] = reqChallenge[r]]
    /\ reqPc' = [reqPc EXCEPT ![r] = "Done"]
    /\ reqChallenge' = [reqChallenge EXCEPT ![r] = NoChallenge]
    /\ UNCHANGED <<today, config, orchVars, genVars, cliVars, clsVars, schedVars,
                   parseVars, statVars, healthVars, extVars>>

\* create of the static challenge settles; a failure reaches the outer catch.
StaticStoreDone(r, dbOk) ==
    /\ reqPc[r] = "StoringStatic"
    /\ IF dbOk /\ ~Conflicts(Row(reqChallenge[r]))
       THEN /\ store' = store \cup {Row(reqChallenge[r])}
            /\ response' = [response EXCEPT ![r] = reqChallenge[r]]
            /\ reqPc' = [reqPc EXCEPT ![r] = "Done"]
            /\ reqChallenge' = [reqChallenge EXCEPT ![r] = NoChallenge]
       ELSE UltimateFallback(r)
    /\ UNCHANGED <<today, config, orchVars, genVars, cliVars, clsVars, schedVars,
                   parseVars, statVars, healthVars, extVars>>

NextServer ==
    \E r \in Reqs :
        \/ ReqStart(r)
        \/ \E dbOk \in BOOLEAN : FindDone(r, dbOk)
        \/ \E o \in OrchestratorOutcomes(today) : GenDone(r, o)
        \/ \E dbOk \in BOOLEAN : StoreDone(r, dbOk)
        \/ \E dbOk \in BOOLEAN : StaticStoreDone(r, dbOk)

\* The procedure serving requests for one date, from an empty store; the
\* orchestrator is seen only through what its invocations end with.
InitAnyDate == \E d \in Dates : InitConfig /\ InitOrch /\ InitServer(d) /\ InitNoText /\ InitNoCallers /\ InitNoExt /\ InitNoParse /\ InitNoStats /\ InitNoHealth /\ InitNoRaw
    /\ InitNoDate

SpecServer == InitAnyDate /\ [][NextServer]_vars

\* ------------------------------------------------- response content checks
\* Code is a sequence of atoms: single delimiter characters, a blank, a line
\* break, and words standing for the runs of other characters between them.
Delimiters == {"(", ")", "{", "}", "[", "]"}
Blanks == {" ", "\n"}

\* Atoms the bodies of generated code are drawn from.
Atoms == Delimiters \cup {"eval", "return 1;"}

\* Characters of an atom.
Chars(atom) ==
    IF \E n \in 1..Len(LongAtoms) : atom \in LongAtoms[n]
    THEN CHOOSE n \in 1..Len(LongAtoms) : atom \in LongAtoms[n]
    ELSE 1

\* The characters of the atoms at positions lo..hi, summed by halves.
RECURSIVE CharsBetween(_, _, _)
CharsBetween(code, lo, hi) ==
    IF lo > hi THEN 0
    ELSE IF lo = hi THEN Chars(code[lo])
    ELSE CharsBetween(code, lo, (lo + hi) \div 2)
         + CharsBetween(code, (lo + hi) \div 2 + 1, hi)

\* String.length.
Length(code) == CharsBetween(code, 1, Len(code))

\* String.trim().
RECURSIVE trim(_)
trim(code) ==
    IF code = <<>> THEN code
    ELSE IF Head(code) \in Blanks THEN trim(Tail(code))
    ELSE IF code[Len(code)] \in Blanks THEN trim(SubSeq(code, 1, Len(code) - 1))
    ELSE code

\* The first position from k on that holds no blank (\s*), Len + 1 if none.
RECURSIVE SkipBlanks(_, _)
SkipBlanks(code, k) ==
    IF k > Len(code) THEN k
    ELSE IF code[k] \in Blanks THEN SkipBlanks(code, k + 1) ELSE k

\* The first position from k on that holds no word atom (\w*), Len + 1 if none.
RECURSIVE SkipWords(_, _)
SkipWords(code, k) ==
    IF k > Len(code) THEN k
    ELSE IF code[k] \in WordAtoms THEN SkipWords(code, k + 1) ELSE k

\* code holds atom a at position k.
At(code, k, a) == k <= Len(code) /\ code[k] = a
AtOneOf(code, k, as) == k <= Len(code) /\ code[k] \in as

\* VALIDATION_RULES.forbiddenPatterns: the names followed by \s*\(, the names
\* followed by a dot, and the names on their own.
ForbiddenCalls ==
    {"eval", "Function", "require", "import", "fetch", "alert", "confirm", "prompt"}
ForbiddenObjects == {"document", "window", "process"}
ForbiddenNames ==
    {"XMLHttpRequest", "__proto__", "constructor", "localStorage", "sessionStorage"}

MatchesForbidden(code) ==
    \E k \in 1..Len(code) :
        \/ code[k] \in ForbiddenCalls /\ At(code, SkipBlanks(code, k + 1), "(")
        \/ code[k] \in ForbiddenObjects /\ At(code, k + 1, ".")
        \/ code[k] \in ForbiddenNames

\* Atoms that begin with "=", and the one that ends with "=>".
EqualAtoms == {"=", "==", "===", "=>"}

\* VALIDATION_RULES.requiredPatterns.hasCodeStructure: /function\s+\w+/ (for
\* which the atom "function f" stands as well), /class\s+\w+/,
\* /const\s+\w+\s*=/ and the same for let and var, /\w+\s*=>\s*/, and
\* /for\s*\(/, /while\s*\(/, /if\s*\(/.
HasCodeStructure(code) ==
    \E k \in 1..Len(code) :
        \/ code[k] = "function f"
        \/ /\ code[k] \in {"function", "class"}
           /\ AtOneOf(code, k + 1, Blanks)
           /\ AtOneOf(code, SkipBlanks(code, k + 1), WordAtoms)
        \/ /\ code[k] \in {"const", "let", "var"}
           /\ AtOneOf(code, k + 1, Blanks)
           /\ AtOneOf(code, SkipBlanks(code, k + 1), WordAtoms)
           /\ AtOneOf(code, SkipBlanks(code, SkipWords(code, SkipBlanks(code, k + 1))),
                      EqualAtoms)
        \/ /\ code[k] \in WordAtoms
           /\ At(code, SkipBlanks(code, k + 1), "=>")
        \/ /\ code[k] \in {"for", "while", "if"}
           /\ At(code, SkipBlanks(code, k + 1), "(")

\* The counter of one delimiter pair after one character.
Count(n, atom, open, close) ==
    IF atom = open THEN n + 1 ELSE IF atom = close THEN n - 1 ELSE n

\* One counter of isValidJavaScriptSyntax over the characters lo..hi: where it
\* ends (net) and the least value it has after any of them (low), put
\* together from the two halves of the range.
RECURSIVE Tally(_, _, _, _, _)
Tally(code, lo, hi, open, close) ==
    IF lo = hi
    THEN [net |-> Count(0, code[lo], open, close), low |-> Count(0, code[lo], open, close)]
    ELSE LET left == Tally(code, lo, (lo + hi) \div 2, open, close)
             right == Tally(code, (lo + hi) \div 2 + 1, hi, open, close)
         IN  [net |-> left.net + right.net,
              low |-> IF left.low < left.net + right.low THEN left.low
                      ELSE left.net + right.low]

\* isValidJavaScriptSyntax: the scan over { } [ ] ( ) returns false as soon as
\* a counter is negative, and else whether all three are 0 at the end.
isValidJavaScriptSyntax(code) ==
    \A pair \in {<<"{", "}">>, <<"[", "]">>, <<"(", ")">>} :
        \/ code = <<>>
        \/ /\ Tally(code, 1, Len(code), pair[1], pair[2]).low >= 0
           /\ Tally(code, 1, Len(code), pair[1], pair[2]).net = 0

\* content.split("\n").
LineCount(code) == 1 + Cardinality({k \in 1..Len(code) : code[k] = "\n"})

\* A ValidationResult.
ValidationResult(errors, warnings) ==
    [isValid |-> errors = {}, errors |-> errors, warnings |-> warnings]

\* validateGeneratedCode(content, difficulty).
validateGeneratedCode(code, level) ==
    ValidationResult(
        (IF Length(trim(code)) < 10 THEN {"too short"} ELSE {})
        \cup (IF Length(code) > 1000 THEN {"too long"} ELSE {})
        \cup (IF LineCount(code) > 20 THEN {"too many lines"} ELSE {})
        \cup (IF MatchesForbidden(code) THEN {"forbidden pattern"} ELSE {})
        \cup (IF ~HasCodeStructure(code) THEN {"no code structure"} ELSE {}),
        (IF level \in {"medium", "hard"} /\ LineCount(code) < 3
         THEN {"few lines"} ELSE {})
        \cup (IF ~isValidJavaScriptSyntax(code) THEN {"syntax"} ELSE {}))

\* comprehensiveValidation(content, difficulty): validateVimPracticeContent
\* adds warnings only (not modelled), never an error.
comprehensiveValidation(code, level) == validateGeneratedCode(code, level)

\* geminiChallengeResponseSchema on startingContent and content: 10 to 1000
\* characters, not blank (title and explanation are taken to conform).
SchemaAccepts(obj) ==
    /\ Length(obj.startingContent) >= 10 /\ Length(obj.startingContent) <= 1000
    /\ trim(obj.startingContent) # <<>>
    /\ Length(obj.content) >= 10 /\ Length(obj.content) <= 1000
    /\ trim(obj.content) # <<>>

\* Generated code: with or without a function head, then up to MaxBody atoms.
Bodies == UNION {[1..n -> Atoms] : n \in 0..MaxBody}
Codes == Bodies \cup {<<"function f">> \o b : b \in Bodies}

\* Starting code that can come with content c: c itself, c with a trailing
\* blank, a clean function head, one that calls eval.
StartingsFor(c) ==
    {c, c \o <<" ">>, <<"function f", "(", ")">>, <<"function f", "eval", "(", ")">>}

NothingProduced ==
    [status |-> "none", error |-> NoError, startingContent |-> <<>>, content |-> <<>>]

\* A response text with a JSON object in it has arrived (the request is only
\* made while the service is enabled).
InitText ==
    /\ cfgEnabled = TRUE /\ hasApiKey = TRUE /\ enableFallback = TRUE
    /\ InitOrch /\ InitServer(Date_2025_01_02) /\ InitNoCallers /\ InitNoExt /\ InitNoParse /\ InitNoStats /\ InitNoHealth /\ InitNoRaw
    /\ InitNoDate
    /\ parsed \in UNION {{[startingContent |-> st, content |-> c] :
                               st \in StartingsFor(c)} : c \in Codes}
    /\ checked = FALSE
    /\ validation = ValidationResult({}, {})
    /\ produced = NothingProduced

\* generateChallenge from the response text on, and the challenge
\* generateWithRetries builds from what it returns: the schema, then
\* validateOrThrow on the content, then the trimmed fields.
Examine(level) ==
    /\ ~checked
    /\ checked' = TRUE
    /\ IF ~SchemaAccepts(parsed)
       THEN /\ produced' = [NothingProduced EXCEPT !.status = "raised",
                                                   !.error = ErrInvalidResponse]
            /\ UNCHANGED validation
       ELSE /\ validation' = comprehensiveValidation(parsed.content, level)
            /\ produced' =
                 IF comprehensiveValidation(parsed.content, level).isValid
                 THEN [status |-> "returned", error |-> NoError,
                       startingContent |-> trim(parsed.startingContent),
                       content |-> trim(parsed.content)]
                 ELSE [NothingProduced EXCEPT !.status = "raised",
                                              !.error = ErrValidation]
    /\ UNCHANGED <<parsed, config, orchVars, srvVars, cliVars, clsVars, schedVars,
                   parseVars, statVars, healthVars, extVars>>

NextText == \E level \in {"easy", "hard"} : Examine(level)

\* What becomes of one response text.
SpecText == InitText /\ [][NextText]_vars

\* ------------------------------------------------------- the cached client
\* generateWithRetries (kind "generate") or getAIServicesHealth (kind "health")
\* reaches its call of getGeminiService, which runs to its first await: the
\* dynamic import when no client is cached, else the return of the cached one.
CallService(k, kind) ==
    /\ callers[k].pc = "Idle"
    /\ callers' = [callers EXCEPT ![k] =
           IF ~isGeminiEnabled THEN [pc |-> "Skipped", kind |-> kind, got |-> 0]
           ELSE IF ~geminiService THEN [pc |-> "Importing", kind |-> kind, got |-> 0]
           ELSE [pc |-> "Got", kind |-> kind, got |-> clientsCreated]]
    /\ UNCHANGED <<config, orchVars, srvVars, genVars,
                   clsVars, schedVars, parseVars, statVars, healthVars, extVars>>

\* The import resolves: getGeminiService constructs a client, assigns it to
\* geminiService and returns it.
ImportResolved(k) ==
    /\ callers[k].pc = "Importing"
    /\ geminiService' = TRUE
    /\ clientsCreated' = clientsCreated + 1
    /\ callers' = [callers EXCEPT ![k].pc = "Got", ![k].got = clientsCreated + 1]
    /\ UNCHANGED <<config, pc, date, optDifficulty, difficulty, retries, attemptCount,
                   lastError, thrown, calls, outcomes, aborted, waitMs, outcome,
                   fallbacks, srvVars, genVars,
                   clsVars, schedVars, parseVars, statVars, healthVars, extVars>>

\* The import rejects: getGeminiService throws to its caller.
ImportRejected(k) ==
    /\ callers[k].pc = "Importing"
    /\ callers' = [callers EXCEPT ![k].pc = "Failed"]
    /\ UNCHANGED <<config, orchVars, srvVars, genVars,
                   clsVars, schedVars, parseVars, statVars, healthVars, extVars>>

NextClient ==
    \E k \in Callers :
        \/ \E kind \in CallerKinds : CallService(k, kind)
        \/ ImportResolved(k)
        \/ ImportRejected(k)

\* Concurrent callers of getGeminiService in a process with no client yet.
SpecClient == Init /\ [][NextClient]_vars

\* ------------------------------------------- the schedule and the selection
\* Character codes of the strings given as dates.
DateCodes == {48, 50, 65535}

\* A string whose hash is exactly 2^31.
MinHashString == <<2325, 9, 30, 12, 2>>

DateStrings ==
    UNION {[1..n -> DateCodes] : n \in 0..MaxDateLen} \cup Dates \cup {MinHashString}

\* Pool tables: the one of the source, and the same with a difficulty emptied.
Pools == {STATIC_CHALLENGE_POOL, [STATIC_CHALLENGE_POOL EXCEPT !.hard = <<>>]}

InitDate ==
    /\ cfgEnabled = TRUE /\ hasApiKey = TRUE /\ enableFallback = TRUE
    /\ InitOrch /\ InitServer(Date_2025_01_02) /\ InitNoText /\ InitNoCallers /\ InitNoExt /\ InitNoParse /\ InitNoStats /\ InitNoHealth
    /\ InitNoRaw
    /\ dateIn \in DateStrings
    /\ poolIn \in Pools
    /\ assigned = <<>>
    /\ selected = <<>>
    /\ serviceAssigned = <<>>

\* getDifficultyForDate(date) is called.
Assign ==
    /\ Len(assigned) < MaxCalls
    /\ assigned' = Append(assigned, getDifficultyForDate(dateIn))
    /\ UNCHANGED <<dateIn, poolIn, selected, serviceAssigned, config, orchVars, srvVars, genVars,
                   cliVars, clsVars,
                   parseVars, statVars, healthVars, extVars>>

\* getChallengeFromPool(difficulty, hashString(date)) is called, as
\* generateStaticFallback calls it.
Select(level) ==
    /\ Len(selected) < MaxCalls
    /\ IF selected = <<>> THEN TRUE ELSE selected[1].difficulty = level
    /\ selected' = Append(selected,
           [difficulty |-> level,
            entry |-> selectFromPool(poolIn, level, hashString(dateIn))])
    /\ UNCHANGED <<dateIn, poolIn, assigned, serviceAssigned, config, orchVars, srvVars, genVars,
                   cliVars, clsVars,
                   parseVars, statVars, healthVars, extVars>>

\* The challenge service's getDifficultyForDate(date), with the default
\* weights, is called.
AssignByService ==
    /\ Len(serviceAssigned) < MaxCalls
    /\ serviceAssigned' = Append(serviceAssigned, ChallengeService_getDifficultyForDate(dateIn))
    /\ UNCHANGED <<dateIn, poolIn, assigned, selected, config, orchVars, srvVars, genVars,
                   cliVars, clsVars, parseVars, statVars, healthVars, extVars>>

NextSchedule == Assign \/ AssignByService \/ \E level \in Difficulties : Select(level)

\* The difficulty and the pool entry of one date string.
SpecSchedule == InitDate /\ [][NextSchedule]_vars

\* ------------------------------------------------- the pool under the rules
InitPool ==
    /\ cfgEnabled = TRUE /\ hasApiKey = TRUE /\ enableFallback = TRUE
    /\ InitOrch /\ InitServer(Date_2025_01_02) /\ InitNoCallers /\ InitNoExt /\ InitNoParse /\ InitNoStats /\ InitNoHealth /\ InitNoRaw
    /\ dateIn \in DateStrings
    /\ poolIn = STATIC_CHALLENGE_POOL
    /\ assigned = <<>>
    /\ selected = <<>>
    /\ serviceAssigned = <<>>
    /\ parsed = [startingContent |-> <<>>, content |-> <<>>]
    /\ checked = FALSE
    /\ validation = ValidationResult({}, {})
    /\ produced = NothingProduced

\* The entry generateStaticFallback selects for the date is put to
\* comprehensiveValidation, as the content of a generated response is.
ValidateEntry(level) ==
    /\ ~checked
    /\ LET entry == getChallengeFromPool(level, hashString(dateIn))
       IN  /\ selected' = <<[difficulty |-> level, entry |-> entry]>>
           /\ parsed' = [startingContent |-> PoolText(entry.startingContent),
                         content |-> PoolText(entry.content)]
           /\ validation' = comprehensiveValidation(PoolText(entry.content), level)
    /\ checked' = TRUE
    /\ UNCHANGED <<produced, dateIn, poolIn, assigned, serviceAssigned, config, orchVars, srvVars,
                   cliVars, clsVars,
                   parseVars, statVars, healthVars, extVars>>

NextPool == \E level \in Difficulties : ValidateEntry(level)

\* The static pool under the rules for generated content.
SpecPool == InitPool /\ [][NextPool]_vars

\* ------------------------------------------------------- response parsing
\* A response text is a sequence of atoms: the fence of three backquotes, the
\* tag json, line breaks and blanks, braces, a comma, a quote, a run of other
\* characters, and Members: the members of a JSON object up to the colon
\* before its last value, which is a string.
Fence == "fence"
Tag == "json"
Quote == "quote"
Members == "members"
Other == "x"

\* The leftmost match of a pattern: the pair with the least start, and for it
\* the least end (a lazy group) or the greatest (a greedy one).
Leftmost(matches) == CHOOSE m \in matches : \A o \in matches : m[1] <= o[1]
Lazy(matches) ==
    CHOOSE m \in matches : m[1] = Leftmost(matches)[1] /\ \A o \in matches :
        o[1] = m[1] => m[2] <= o[2]
Greedy(matches) ==
    CHOOSE m \in matches : m[1] = Leftmost(matches)[1] /\ \A o \in matches :
        o[1] = m[1] => m[2] >= o[2]

\* The five strategies: what each extracts from the text, <<>> for undefined
\* and for the empty string alike (both are falsy).
\* (1) /```json\n([\s\S]*?)\n```/, group 1.
Strategy1(text) ==
    LET matches == {m \in (1..Len(text)) \X (1..Len(text)) :
                       /\ m[1] + 3 <= m[2] /\ m[2] + 1 <= Len(text)
                       /\ text[m[1]] = Fence /\ text[m[1] + 1] = Tag
                       /\ text[m[1] + 2] = "\n"
                       /\ text[m[2]] = "\n" /\ text[m[2] + 1] = Fence}
    IN  IF matches = {} THEN <<>>
        ELSE SubSeq(text, Lazy(matches)[1] + 3, Lazy(matches)[2] - 1)

\* (2) /```\n([\s\S]*?)\n```/, group 1.
Strategy2(text) ==
    LET matches == {m \in (1..Len(text)) \X (1..Len(text)) :
                       /\ m[1] + 2 <= m[2] /\ m[2] + 1 <= Len(text)
                       /\ text[m[1]] = Fence /\ text[m[1] + 1] = "\n"
                       /\ text[m[2]] = "\n" /\ text[m[2] + 1] = Fence}
    IN  IF matches = {} THEN <<>>
        ELSE SubSeq(text, Lazy(matches)[1] + 2, Lazy(matches)[2] - 1)

\* (3) /```json([\s\S]*?)```/, group 1.
Strategy3(text) ==
    LET matches == {m \in (1..Len(text)) \X (1..Len(text)) :
                       /\ m[1] + 2 <= m[2]
                       /\ text[m[1]] = Fence /\ text[m[1] + 1] = Tag
                       /\ text[m[2]] = Fence}
    IN  IF matches = {} THEN <<>>
        ELSE SubSeq(text, Lazy(matches)[1] + 2, Lazy(matches)[2] - 1)

\* (4) /\{[\s\S]*\}/, the whole match.
Strategy4(text) ==
    LET matches == {m \in (1..Len(text)) \X (1..Len(text)) :
                       m[1] < m[2] /\ text[m[1]] = "{" /\ text[m[2]] = "}"}
    IN  IF matches = {} THEN <<>>
        ELSE SubSeq(text, Greedy(matches)[1], Greedy(matches)[2])

\* (5) the text itself.
Strategy5(text) == text

strategies(text) ==
    <<Strategy1(text), Strategy2(text), Strategy3(text), Strategy4(text), Strategy5(text)>>

\* The for loop: the index of the first strategy that extracts something, 0
\* if none does.
FirstExtracting(text) ==
    IF \A n \in 1..5 : strategies(text)[n] = <<>> THEN 0
    ELSE CHOOSE n \in 1..5 :
            /\ strategies(text)[n] # <<>>
            /\ \A o \in 1..(n - 1) : strategies(text)[o] = <<>>

\* jsonStr.replace(/,\s*}/g, "}"): a comma, and the blanks after it, go when
\* a closing brace follows (the atoms hold no square bracket).
RECURSIVE RemoveTrailingCommas(_)
RemoveTrailingCommas(str) ==
    IF str = <<>> THEN str
    ELSE IF Head(str) = "," /\ At(str, SkipBlanks(str, 2), "}")
    THEN RemoveTrailingCommas(SubSeq(str, SkipBlanks(str, 2), Len(str)))
    ELSE <<Head(str)>> \o RemoveTrailingCommas(Tail(str))

\* JSON.parse takes the string: an object, that is an opening brace, the
\* members, the string that is the last value (a quote, characters other than
\* a quote or a line break, a quote) and a closing brace, with blanks allowed
\* between them.
IsJson(str) ==
    LET tokens == SelectSeq(str, LAMBDA atom : atom \notin Blanks)
        open == CHOOSE k \in 1..Len(str) : str[k] = Quote
        close == CHOOSE k \in 1..Len(str) : str[k] = Quote /\ k # open
    IN  /\ Len(tokens) >= 5
        /\ tokens[1] = "{" /\ tokens[2] = Members /\ tokens[3] = Quote
        /\ tokens[Len(tokens) - 1] = Quote /\ tokens[Len(tokens)] = "}"
        /\ Cardinality({k \in 1..Len(str) : str[k] = Quote}) = 2
        /\ \A k \in 1..Len(str) :
              /\ (k > open /\ k < close) => str[k] # "\n"
              /\ (k < open \/ k > close) => str[k] \in Blanks \cup {"{", "}", Members}

\* The characters of its last string.
LastString(str) ==
    LET quotes == {k \in 1..Len(str) : str[k] = Quote}
    IN  SubSeq(str, (CHOOSE k \in quotes : \A o \in quotes : k <= o) + 1,
                    (CHOOSE k \in quotes : \A o \in quotes : k >= o) - 1)

\* geminiChallengeResponseSchema on the decoded object, each string given by
\* its length and by whether it is all white space; explanation is optional.
MinTitle == 5
MaxTitle == 100
MinContent == 10
MaxContent == 1000
MaxExplanation == 500
Absent == 0 - 1

\* Mutant: the upper bounds are exclusive, as the schema's messages word them.
geminiChallengeResponseSchema_LessThan(fields) ==
    /\ fields.startingContent >= MinContent /\ fields.startingContent < MaxContent
    /\ "startingContent" \notin fields.blank
    /\ fields.content >= MinContent /\ fields.content < MaxContent
    /\ "content" \notin fields.blank
    /\ fields.title >= MinTitle /\ fields.title < MaxTitle
    /\ "title" \notin fields.blank
    /\ fields.explanation = Absent \/ fields.explanation < MaxExplanation

geminiChallengeResponseSchema(fields) ==
    /\ fields.startingContent >= MinContent /\ fields.startingContent <= MaxContent
    /\ "startingContent" \notin fields.blank
    /\ fields.content >= MinContent /\ fields.content <= MaxContent
    /\ "content" \notin fields.blank
    /\ fields.title >= MinTitle /\ fields.title <= MaxTitle
    /\ "title" \notin fields.blank
    /\ fields.explanation = Absent \/ fields.explanation <= MaxExplanation

\* What parseResponse returns, and what it throws: every throw inside its try
\* block is wrapped by createGeminiError.invalidResponse.
ParseReturned(n, fields, str) ==
    [status |-> "returned", error |-> NoError, strategy |-> n, fields |-> fields,
     last |-> LastString(str)]
ParseThrew(n) ==
    [status |-> "threw", error |-> ErrInvalidResponse, strategy |-> n, fields |-> NoFields,
     last |-> <<>>]

\* Mutant: a strategy whose extraction does not parse is passed over.
parseResponse_FirstParsing(text, fields) ==
    IF \A n \in 1..5 : ~IsJson(RemoveTrailingCommas(trim(strategies(text)[n])))
    THEN ParseThrew(FirstExtracting(text))
    ELSE LET n == CHOOSE n \in 1..5 :
                     /\ IsJson(RemoveTrailingCommas(trim(strategies(text)[n])))
                     /\ \A o \in 1..(n - 1) :
                           ~IsJson(RemoveTrailingCommas(trim(strategies(text)[o])))
         IN  IF geminiChallengeResponseSchema(fields)
             THEN ParseReturned(n, fields, RemoveTrailingCommas(trim(strategies(text)[n])))
             ELSE ParseThrew(n)

\* parseResponse(text): the first strategy that extracts something gives
\* jsonStr, which is trimmed, rid of trailing commas, parsed and checked
\* against the schema. fields is what the members written in the text denote.
parseResponse(text, fields) ==
    LET n == FirstExtracting(text)
        jsonStr == IF n = 0 THEN <<>> ELSE trim(strategies(text)[n])
        cleaned == RemoveTrailingCommas(trim(jsonStr))
    IN  IF jsonStr = <<>> THEN ParseThrew(n)
        ELSE IF ~IsJson(cleaned) THEN ParseThrew(n)
        ELSE IF ~geminiChallengeResponseSchema(fields) THEN ParseThrew(n)
        ELSE ParseReturned(n, fields, cleaned)

\* The last string of a payload: up to MaxString atoms.
StringAtoms == {Other, Fence, Tag, "}"}
Strings == UNION {[1..n -> StringAtoms] : n \in 0..MaxString}

\* Payloads: an object whose last value is such a string, closed by a brace,
\* by a trailing comma and a brace, or cut short before the brace.
Payloads ==
    {<<"{", Members, Quote>> \o str \o <<Quote>> \o tail :
        str \in Strings, tail \in {<<"}">>, <<",", "\n", "}">>, <<>>}}

\* The plain payload, and texts that hold no payload.
PlainPayload == <<"{", Members, Quote, Other, Quote, "}">>
NoPayloads == {<<>>, <<"\n">>, <<Other>>}

\* The ways a response text carries a payload.
Wrappers == {"tagged", "bare", "tight", "raw", "prose", "taggedProse", "emptyBlock"}
Wrap(wrapper, payload) ==
    CASE wrapper = "tagged" -> <<Fence, Tag, "\n">> \o payload \o <<"\n", Fence>>
      [] wrapper = "bare" -> <<Fence, "\n">> \o payload \o <<"\n", Fence>>
      [] wrapper = "tight" -> <<Fence, Tag>> \o payload \o <<Fence>>
      [] wrapper = "raw" -> payload
      [] wrapper = "prose" -> <<Other, "\n">> \o payload \o <<"\n", Other>>
      [] wrapper = "taggedProse" ->
            <<Fence, Tag, "\n", Other, "\n">> \o payload \o <<"\n", Fence>>
      [] wrapper = "emptyBlock" -> <<Fence, Tag, "\n", "\n", Fence, "\n">> \o payload

\* The decoded values: lengths on either side of each bound of the schema,
\* explanation absent or at its bound, content all white space or not.
TypicalFields ==
    [title |-> MinTitle, startingContent |-> MinContent, content |-> MaxContent,
     explanation |-> Absent, blank |-> {}]
FieldChoices ==
    [title : {MinTitle - 1, MinTitle, MaxTitle, MaxTitle + 1},
     startingContent : {MinContent - 1, MinContent, MaxContent, MaxContent + 1},
     content : {MinContent - 1, MinContent, MaxContent, MaxContent + 1},
     explanation : {Absent, MaxExplanation, MaxExplanation + 1},
     blank : {{}, {"content"}}]

\* A response text is in hand: a payload in a wrapper, with the values its
\* members denote; the values vary for the plain payload.
InitParse ==
    /\ cfgEnabled = TRUE /\ hasApiKey = TRUE /\ enableFallback = TRUE
    /\ InitOrch /\ InitServer(Date_2025_01_02) /\ InitNoText /\ InitNoCallers /\ InitNoExt
    /\ InitNoRaw /\ InitNoDate /\ InitNoStats /\ InitNoHealth
    /\ payloadIn \in Payloads \cup NoPayloads
    /\ \E wrapper \in Wrappers : textIn = Wrap(wrapper, payloadIn)
    /\ fieldsIn \in FieldChoices
    /\ fieldsIn = TypicalFields \/ payloadIn = PlainPayload
    /\ parseOut = NotParsed

\* generateChallenge hands the text to parseResponse.
Parse ==
    /\ parseOut = NotParsed
    /\ parseOut' = parseResponse(textIn, fieldsIn)
    /\ UNCHANGED <<textIn, payloadIn, fieldsIn, config, orchVars, srvVars, genVars, cliVars,
                   clsVars, schedVars, statVars, healthVars, extVars>>

\* What parseResponse makes of one response text.
SpecParse == InitParse /\ [][Parse]_vars

\* ---------------------------------------------------------- health checks
\* Mutant: a service with a key is reported healthy whatever the probe did.
healthStatus_KeyOnly(apiKeyConfigured, canMakeRequests, errors) ==
    IF ~apiKeyConfigured THEN "disabled" ELSE "healthy"

\* healthCheck, the status from what was found.
healthStatus(apiKeyConfigured, canMakeRequests, errors) ==
    IF ~apiKeyConfigured THEN "disabled"
    ELSE IF errors = {} /\ canMakeRequests THEN "healthy"
    ELSE IF canMakeRequests THEN "degraded"
    ELSE "unhealthy"

\* healthCheck up to its await: with no key it returns at once, with a key
\* it issues the probe, makeRequest("Test", 5000), and arms the abort timer.
EnterHealthCheck(h, via, keyed) ==
    IF ~keyed
    THEN health' = [health EXCEPT ![h] =
             [NoCheck EXCEPT !.pc = "Done", !.via = via,
                  !.status = healthStatus(FALSE, FALSE, {"API key is not configured"})]]
    ELSE health' = [health EXCEPT ![h] =
             [NoCheck EXCEPT !.pc = "Probing", !.via = via, !.keyed = TRUE,
                  !.probes = health[h].probes + 1, !.probe = "pending"]]

\* healthCheck is called on a service the caller holds, constructed with a
\* key or with an empty one.
CheckService(h, keyed) ==
    /\ health[h].pc = "Idle"
    /\ EnterHealthCheck(h, "service", keyed)
    /\ UNCHANGED <<config, orchVars, srvVars, genVars, cliVars, clsVars, schedVars, parseVars,
                   statVars, extVars>>

\* getAIServicesHealth is called: isGeminiEnabled, then getGeminiService up
\* to its first await, then healthCheck of the cached service.
CheckServices(h) ==
    /\ health[h].pc = "Idle"
    /\ configValidated' = TRUE
    /\ IF ~isGeminiEnabled
       THEN health' = [health EXCEPT ![h] =
                [NoCheck EXCEPT !.pc = "Done", !.via = "facade", !.status = "disabled"]]
       ELSE IF ~geminiService
       THEN health' = [health EXCEPT ![h] =
                [NoCheck EXCEPT !.pc = "Importing", !.via = "facade"]]
       ELSE EnterHealthCheck(h, "facade", hasApiKey)
    /\ UNCHANGED <<config, orchVars, srvVars, genVars, cliVars, clsVars, schedVars, parseVars,
                   stats, extVars>>

\* The import resolves: the client is constructed and cached, and its
\* healthCheck is called.
HealthImportResolved(h) ==
    /\ health[h].pc = "Importing"
    /\ geminiService' = TRUE
    /\ clientsCreated' = clientsCreated + 1
    /\ EnterHealthCheck(h, "facade", hasApiKey)
    /\ UNCHANGED <<config, pc, date, optDifficulty, difficulty, retries, attemptCount,
                   lastError, thrown, calls, outcomes, aborted, waitMs, outcome,
                   fallbacks, srvVars, genVars, cliVars, clsVars, schedVars, parseVars,
                   statVars, extVars>>

\* The import rejects: getGeminiService throws into the catch block of
\* getAIServicesHealth.
HealthImportRejected(h) ==
    /\ health[h].pc = "Importing"
    /\ health' = [health EXCEPT ![h].pc = "Done", ![h].status = "unhealthy"]
    /\ UNCHANGED <<config, orchVars, srvVars, genVars, cliVars, clsVars, schedVars, parseVars,
                   statVars, extVars>>

\* The abort timer of the probe fires.
ProbeTimerFired(h) ==
    /\ health[h].pc = "Probing"
    /\ ~health[h].aborted
    /\ health' = [health EXCEPT ![h].aborted = TRUE]
    /\ UNCHANGED <<config, orchVars, srvVars, genVars, cliVars, clsVars, schedVars, parseVars,
                   statVars, extVars>>

\* The probe returns: canMakeRequests = true.
ProbeSucceeded(h) ==
    /\ health[h].pc = "Probing"
    /\ health' = [health EXCEPT ![h].pc = "Done", ![h].probe = "succeeded",
                                 ![h].status = healthStatus(TRUE, TRUE, {})]
    /\ UNCHANGED <<config, orchVars, srvVars, genVars, cliVars, clsVars, schedVars, parseVars,
                   statVars, extVars>>

\* The probe throws (makeRequest rethrows it, as a timeout error once the
\* timer has fired): healthCheck catches it and notes the message.
ProbeFailed(h, raw) ==
    /\ health[h].pc = "Probing"
    /\ health' = [health EXCEPT ![h].pc = "Done", ![h].probe = "failed",
                                 ![h].status =
                                     healthStatus(TRUE, FALSE,
                                         {RequestError(raw, health[h].aborted).kind})]
    /\ UNCHANGED <<config, orchVars, srvVars, genVars, cliVars, clsVars, schedVars, parseVars,
                   statVars, extVars>>

NextHealth ==
    \E h \in Checks :
        \/ \E keyed \in BOOLEAN : CheckService(h, keyed)
        \/ CheckServices(h)
        \/ HealthImportResolved(h)
        \/ HealthImportRejected(h)
        \/ ProbeTimerFired(h)
        \/ ProbeSucceeded(h)
        \/ \E raw \in RawErrors : ProbeFailed(h, raw)

\* Health checks of a process, alone or together.
SpecHealth == Init /\ [][NextHealth]_vars

\* --------------------------------------------------- error classification
\* Every combination of patterns a message can match.
AllRawErrors ==
    {e \in [pats : SUBSET Patterns, hint : Hints] : e.hint = NoHint \/ "rate" \in e.pats}

\* An error that is not a GeminiGenerationError is in the catch block of
\* generateChallenge.
InitRaw ==
    /\ cfgEnabled = TRUE /\ hasApiKey = TRUE /\ enableFallback = TRUE
    /\ InitOrch /\ InitServer(Date_2025_01_02) /\ InitNoText /\ InitNoCallers /\ InitNoExt /\ InitNoParse /\ InitNoStats /\ InitNoHealth
    /\ InitNoDate
    /\ rawError \in AllRawErrors
    /\ classified = NoError

\* The catch block converts it with handleUnknownError.
Classify ==
    /\ classified = NoError
    /\ classified' = handleUnknownError(rawError)
    /\ UNCHANGED <<rawError, config, orchVars, srvVars, genVars, cliVars, schedVars,
                   parseVars, statVars, healthVars, extVars>>

\* What handleUnknownError makes of one error.
SpecClassify == InitRaw /\ [][Classify]_vars

\* ------------------------------------------------------------------ claims
\* Every entry of a sequence of call outcomes is a retryable failure.
AllRetryable(seq) == \A n \in 1..Len(seq) : seq[n] = "retryable"

\* seq is k retryable failures followed by one success.
FailsThenOk(seq) ==
    /\ Len(seq) >= 1
    /\ seq[Len(seq)] = "ok"
    /\ AllRetryable(SubSeq(seq, 1, Len(seq) - 1))

IsGenerated(i) ==
    /\ pc[i] = "Returned"
    /\ outcome[i].status = "returned"
    /\ outcome[i].result.generatedBy = "gemini"

IsStatic(i) ==
    /\ pc[i] = "Returned"
    /\ outcome[i].status = "returned"
    /\ outcome[i].result.generatedBy = "static"
    /\ outcome[i].result.usedFallback

\* C1: with a budget R >= 0, while the calls so far (k <= R of them) have all
\* failed with retryable errors the orchestrator has not given up, and once k <= R
\* retryable failures are followed by a success it has issued exactly k+1 calls
\* and returned a generated result.
C1_RetryUntilSuccess ==
    \A i \in Invs :
        retries[i] >= 0 =>
            /\ (Len(outcomes[i]) >= 1 /\ Len(outcomes[i]) <= retries[i]
                    /\ AllRetryable(outcomes[i]))
                  => pc[i] \in {"Backoff", "Requesting"}
            /\ (FailsThenOk(outcomes[i]) /\ Len(outcomes[i]) - 1 <= retries[i])
                  => IsGenerated(i) /\ calls[i] = Len(outcomes[i])

\* C1 witness: budget 3, three retryable failures, then a success on call 4.
C1_Witness ==
    \E i \in Invs :
        /\ retries[i] = 3
        /\ outcomes[i] = <<"retryable", "retryable", "retryable", "ok">>
        /\ calls[i] = 4
        /\ IsGenerated(i)

\* C2: with fallback enabled, a non-retryable failure of a call is the last
\* call of the invocation, which returns the static challenge at once; when
\* the first call fails that way exactly one call was made.
C2_FatalEndsLoop ==
    \A i \in Invs :
        (enableFallback /\ \E n \in 1..Len(outcomes[i]) : outcomes[i][n] = "fatal")
            => /\ outcomes[i][Len(outcomes[i])] = "fatal"
               /\ calls[i] = Len(outcomes[i])
               /\ IsStatic(i)
               /\ (outcomes[i][1] = "fatal" => calls[i] = 1)

\* C2 witness: budget 2, the first call fails with an auth error, one call, static.
C2_Witness ==
    \E i \in Invs :
        /\ retries[i] = 2
        /\ enableFallback
        /\ outcomes[i] = <<"fatal">>
        /\ calls[i] = 1
        /\ IsStatic(i)

\* C3: with a budget R >= 0 an invocation never issues more than R+1 calls;
\* when it has ended and every call failed with a retryable error, it issued
\* exactly R+1 calls and (fallback enabled) returned the static challenge.
C3_AttemptsBounded ==
    \A i \in Invs :
        retries[i] >= 0 =>
            /\ calls[i] <= retries[i] + 1
            /\ (Finished(i) /\ calls[i] >= 1 /\ AllRetryable(outcomes[i]))
                  => /\ calls[i] = retries[i] + 1
                     /\ Len(outcomes[i]) = retries[i] + 1
                     /\ (enableFallback => IsStatic(i))

\* C3 witness: budget MaxRetries exhausted by retryable failures, static returned.
C3_Witness ==
    \E i \in Invs :
        /\ retries[i] = MaxRetries
        /\ calls[i] = MaxRetries + 1
        /\ AllRetryable(outcomes[i])
        /\ Len(outcomes[i]) = MaxRetries + 1
        /\ IsStatic(i)

\* C4: with fallback enabled no invocation raises, and an invocation that
\* ended without a successful call returned the static challenge.
C4_FallbackNeverRaises ==
    \A i \in Invs :
        enableFallback =>
            /\ pc[i] # "Raised"
            /\ outcome[i].status # "raised"
            /\ (Finished(i) /\ ~\E n \in 1..Len(outcomes[i]) : outcomes[i][n] = "ok")
                  => IsStatic(i)

\* C4 witness: fallback enabled, the client could not be constructed, static returned.
C4_Witness ==
    \E i \in Invs :
        /\ enableFallback
        /\ isGeminiEnabled
        /\ thrown[i] = ErrPlain("ClientConstruction")
        /\ IsStatic(i)

C6_DisabledMakesNoCall ==
    (~cfgEnabled \/ ~hasApiKey) =>
        /\ ~geminiService
        /\ clientsCreated = 0
        /\ \A i \in Invs :
              /\ calls[i] = 0
              /\ pc[i] \in {"Idle", "Returned"}
              /\ pc[i] = "Returned" => IsStatic(i)

\* C6 witness: the service is switched on but has no API key, static returned.
C6_Witness ==
    \E i \in Invs : cfgEnabled /\ ~hasApiKey /\ IsStatic(i) /\ calls[i] = 0

\* C7 as claimed: a static result is returned only when fallback is enabled.
C7_StaticOnlyWithFallback ==
    \A i \in Invs : IsStatic(i) => enableFallback

\* C7 amended: a static result is returned only when fallback is enabled or
\* the generative path is not enabled; with the path enabled and fallback
\* disabled, an invocation that ended without a successful call raised.
C7_StaticOnlyWithFallbackOrDisabled ==
    \A i \in Invs :
        /\ IsStatic(i) => (enableFallback \/ ~isGeminiEnabled)
        /\ (isGeminiEnabled /\ ~enableFallback /\ Finished(i)
               /\ ~\E n \in 1..Len(outcomes[i]) : outcomes[i][n] = "ok")
              => pc[i] = "Raised" /\ outcome[i].status = "raised"

\* C7 witness: path enabled, fallback disabled, budget exhausted, error raised.
C7_Witness ==
    \E i \in Invs :
        /\ isGeminiEnabled /\ ~enableFallback
        /\ pc[i] = "Raised"
        /\ calls[i] = retries[i] + 1
        /\ calls[i] >= 2

\* C8 as claimed: once the timeout of a call has expired the call is no longer
\* outstanding (it has ended with a timeout error).
C8_TimeoutEndsCall ==
    \A i \in Invs : ~(pc[i] = "Requesting" /\ aborted[i])

\* C10: all static results handed out for one date to invocations that left
\* the difficulty to its default are the same challenge.
C10_FallbackDeterministic ==
    \A d \in Dates : Cardinality(fallbacks[d].results) <= 1

\* C10 witness: two invocations for one date have ended in fallback, one of
\* them after a client was constructed.
C10_Witness ==
    \E d \in Dates : fallbacks[d].runs >= 2 /\ clientsCreated >= 1

\* C9: for one date, all requests that have been answered got the same
\* puzzle (id, startingContent, content, title, difficulty).
C9_SamePuzzleForAll ==
    \A r1, r2 \in Reqs :
        (reqPc[r1] = "Done" /\ reqPc[r2] = "Done") => response[r1] = response[r2]

\* External calls of invocation i that were issued and have not yet ended.
Outstanding(i) == calls[i] - Len(outcomes[i])

\* C11: an invocation never has more than one external call outstanding, it
\* has one exactly while it awaits the service, and a further call is issued
\* only by the step that ends the backoff wait (or the client import that
\* follows it) after the previous call has failed.
C11_OneOutstandingCall ==
    /\ [](\A i \in Invs :
            /\ Outstanding(i) \in {0, 1}
            /\ (Outstanding(i) = 1) <=> (pc[i] = "Requesting"))
    /\ [][\A i \in Invs :
            (pc'[i] = "Requesting" /\ ~Finished(i) /\ pc[i] # "Idle"
               /\ (pc[i] = "Requesting" => outcomes'[i] # outcomes[i]))
            => /\ pc[i] \in {"Backoff", "Importing"}
               /\ Outstanding(i) = 0
               /\ (pc[i] = "Backoff" => waitMs[i] > 0 /\ waitMs'[i] = 0)
               /\ (calls[i] >= 1 => outcomes[i][Len(outcomes[i])] = "retryable")]_vars

\* C11 witness: the second call of an invocation is outstanding, the first has
\* failed.
C11_Witness ==
    \E i \in Invs :
        /\ pc[i] = "Requesting"
        /\ calls[i] = 2
        /\ outcomes[i] = <<"retryable">>

\* C12: when every external call returns or throws, every invocation that has
\* started ends, by returning a result or by raising, whatever its retry
\* budget (negative and 0 included) and whatever errors its calls end with.
C12_InvocationTerminates ==
    \A i \in Invs : (pc[i] \notin {"Idle", "Returned", "Raised"}) ~> Finished(i)

\* C12 witness: with the full budget every call was blocked for safety, and
\* the invocation has ended.
C12_Witness ==
    \E i \in Invs :
        /\ Finished(i)
        /\ retries[i] = MaxRetries
        /\ calls[i] = MaxRetries + 1
        /\ AllRetryable(outcomes[i])
        /\ thrown[i].kind = "SafetyBlocked"

\* C13: a call that ends with an unparsable or invalid response throws a
\* retryable error; with budget left it costs one attempt and leads to the
\* backoff wait with no result handed out, after which a new call is issued;
\* with no budget left the invocation ends without a generated result.
C13_BadResponseRetried ==
    [][\A i \in Invs :
        /\ (/\ pc[i] = "Requesting"
            /\ Len(outcomes'[i]) = Len(outcomes[i]) + 1
            /\ outcomes'[i][Len(outcomes'[i])] # "ok"
            /\ thrown'[i].kind \in {"InvalidResponse", "Validation"})
           => /\ thrown'[i].gemini /\ thrown'[i].retryable
              /\ IF attemptCount[i] < retries[i]
                 THEN /\ pc'[i] = "Backoff"
                      /\ attemptCount'[i] = attemptCount[i] + 1
                      /\ lastError'[i] = thrown'[i]
                      /\ outcome'[i] = Pending
                      /\ calls'[i] = calls[i]
                 ELSE /\ pc'[i] \in {"Returned", "Raised"}
                      /\ outcome'[i].result.generatedBy # "gemini"
        /\ (pc[i] = "Backoff" /\ pc'[i] = "Requesting") => calls'[i] = calls[i] + 1
    ]_vars

\* C13 witness: the first call came back with a response that failed content
\* validation, and the second call is outstanding.
C13_Witness ==
    \E i \in Invs :
        /\ pc[i] = "Requesting"
        /\ calls[i] = 2
        /\ attemptCount[i] = 1
        /\ thrown[i] = ErrValidation

\* The failed call of invocation i was followed by a further call.
RetriedAfterFailure(i) == calls'[i] = calls[i] + 1 /\ calls[i] >= 1

\* C14 as stated: during a backoff wait the delay is the retry-after hint of
\* the failed error whenever the error carries one (0 seconds included), and
\* the default delay otherwise.
C14_WaitsExactHint ==
    \A i \in Invs :
        pc[i] = "Backoff" =>
            waitMs[i] = IF thrown[i].retryAfter # NoHint
                        THEN thrown[i].retryAfter * 1000 ELSE retryDelay

\* What does hold of the waits: a wait happens exactly after a retryable failure with budget
\* left, its delay is the retry-after hint when that is positive and the
\* default delay when the hint is absent or 0; no wait is pending in any
\* other position, and a further call is only issued out of such a wait.
C14_WaitsPositiveHintOrDefault ==
    /\ [](\A i \in Invs :
            /\ pc[i] = "Backoff" =>
                  /\ isRetryableError(thrown[i])
                  /\ lastError[i] = thrown[i]
                  /\ attemptCount[i] <= retries[i]
                  /\ waitMs[i] = IF thrown[i].retryAfter > 0
                                 THEN thrown[i].retryAfter * 1000 ELSE retryDelay
            /\ pc[i] # "Backoff" => waitMs[i] = 0)
    /\ [][\A i \in Invs :
            /\ RetriedAfterFailure(i) => pc[i] = "Backoff"
            /\ (pc[i] = "Requesting" /\ Len(outcomes'[i]) > Len(outcomes[i])
                  /\ outcomes'[i][Len(outcomes'[i])] # "ok")
                => (pc'[i] = "Backoff"
                      <=> (isRetryableError(thrown'[i]) /\ attemptCount[i] < retries[i]))
       ]_vars

\* A rate-limit error with a hint of 2 seconds is being waited out for 2000 ms.
C14_PositiveHintWaited ==
    \E i \in Invs :
        /\ pc[i] = "Backoff"
        /\ thrown[i] = ErrRateLimit(2)
        /\ waitMs[i] = 2000

\* C15: a returned result is tagged gemini or static; a gemini result is not
\* a fallback and was built from the response of the invocation's last call,
\* which parsed and passed content validation; a static result is a fallback
\* and no call of the invocation produced a usable response.
C15_SourceTagsAreTrue ==
    \A i \in Invs :
        outcome[i].status = "returned" =>
            LET r == outcome[i].result
                n == Len(outcomes[i])
            IN  /\ r.generatedBy \in {"gemini", "static"}
                /\ r.generatedBy = "gemini" =>
                      /\ ~r.usedFallback
                      /\ n >= 1 /\ n = calls[i]
                      /\ outcomes[i][n] = "ok"
                      /\ r.challenge.content \in GenContents
                /\ r.generatedBy = "static" =>
                      /\ r.usedFallback
                      /\ \A k \in 1..n : outcomes[i][k] # "ok"
                      /\ r.challenge.content \notin GenContents

\* C15 witness: a response failed validation, the next one passed, and the
\* generated result was returned.
C15_Witness ==
    \E i \in Invs :
        /\ IsGenerated(i)
        /\ outcomes[i] = <<"retryable", "ok">>
        /\ thrown[i] = ErrValidation

\* C16: no challenge returned as generated matches a forbidden pattern, in its
\* content or in its startingContent.  (Refuted: validateOrThrow is given the
\* content only, so a startingContent that calls eval is returned.)
C16_NoForbiddenPattern ==
    produced.status = "returned" =>
        /\ ~MatchesForbidden(produced.content)
        /\ ~MatchesForbidden(produced.startingContent)

\* The half of C16 that the code keeps: the returned content matches no
\* forbidden pattern, and a match in the content is an error.
C16_ContentHalf ==
    /\ produced.status = "returned" => ~MatchesForbidden(produced.content)
    /\ (checked /\ SchemaAccepts(parsed) /\ MatchesForbidden(parsed.content)) =>
           /\ "forbidden pattern" \in validation.errors
           /\ ~validation.isValid
           /\ produced.status = "raised"

\* C17: content whose delimiter scan goes negative or ends nonzero fails
\* validation with an error and is not returned as generated.  (Refuted: the
\* failed scan is pushed to the warnings, which isValid does not look at.)
C17_UnbalancedIsRejected ==
    (checked /\ SchemaAccepts(parsed) /\ ~isValidJavaScriptSyntax(parsed.content)) =>
        /\ ~validation.isValid
        /\ produced.status = "raised"

\* What the code does with a failed scan: a warning, always.
C17_UnbalancedIsWarned ==
    (checked /\ SchemaAccepts(parsed)) =>
        ("syntax" \in validation.warnings <=> ~isValidJavaScriptSyntax(parsed.content))

\* Code with its whitespace taken out.
Squeeze(code) == SelectSeq(code, LAMBDA atom : atom \notin Blanks)

\* C18: a challenge returned as generated has a non-empty startingContent that
\* differs from its content after whitespace normalization.  (Refuted: neither
\* the schema nor the validator compares the two fields.)
C18_StartingContentDiffers ==
    produced.status = "returned" =>
        /\ produced.startingContent # <<>>
        /\ Squeeze(produced.startingContent) # Squeeze(produced.content)

\* The static half of C18: a static result carries a startingContent.
\* (Refuted as well: generateStaticFallback builds the challenge without one.)
C18_StaticHasStartingContent ==
    \A i \in Invs :
        IsStatic(i) => outcome[i].result.challenge.startingContent # "undefined"

\* What the code does keep of C18: the returned startingContent is not empty.
C18_StartingContentNonEmpty ==
    produced.status = "returned" => produced.startingContent # <<>>

\* C19: however the callers of getGeminiService interleave, at most one client
\* is constructed in the process.  (Refuted: the test of geminiService and its
\* assignment are on either side of an await.)
C19_OneClient == clientsCreated <= 1

\* What the code does keep of C19: a caller that starts once a client is
\* cached gets that one and constructs none.
C19_LateCallersReuse ==
    [][\A k \in Callers :
          (geminiService /\ callers[k].pc = "Idle" /\ callers'[k].pc # "Idle")
              => /\ callers'[k].pc = "Got"
                 /\ callers'[k].got = clientsCreated
                 /\ clientsCreated' = clientsCreated]_vars

\* The closed taxonomy: the kinds that are retryable and those that are not.
RetryableKinds ==
    {"RateLimit", "Network", "Timeout", "InvalidResponse", "SafetyBlocked", "Unclassified"}
FatalKinds == {"AuthError", "InvalidModel", "Disabled"}

\* The taxonomy kind of an error: a content validation failure counts with
\* the responses that could not be used.
KindOf(e) == IF e.kind = "Validation" THEN "InvalidResponse" ELSE e.kind

\* C20: every error the catch block of the retry loop decides on is of a kind
\* of the taxonomy and is retryable exactly when its kind is.  (Refuted: what
\* getGeminiService throws reaches the decision as a plain Error, of no kind,
\* and is not retried.)
C20_TaxonomyRetryability ==
    \A i \in Invs :
        thrown[i] # NoError =>
            /\ KindOf(thrown[i]) \in RetryableKinds \cup FatalKinds
            /\ isRetryableError(thrown[i]) <=> KindOf(thrown[i]) \in RetryableKinds

\* What the code does keep of C20: the errors generateChallenge throws carry
\* the taxonomy's retryability.
C20_ClassifiedRetryability ==
    \A i \in Invs :
        (thrown[i] # NoError /\ thrown[i].gemini) =>
            /\ KindOf(thrown[i]) \in RetryableKinds \cup FatalKinds
            /\ isRetryableError(thrown[i]) <=> KindOf(thrown[i]) \in RetryableKinds

\* And an unclassified error is retried while budget remains.
C20_UnclassifiedRetried ==
    [][\A i \in Invs :
          (pc[i] = "Requesting" /\ attemptCount'[i] = attemptCount[i] + 1
           /\ thrown'[i].kind = "Unclassified"
           /\ WithinBudget(attemptCount'[i], retries[i]))
              => pc'[i] = "Backoff"]_vars

\* C21: a transport error whose message matches an auth pattern is not
\* retried, whatever else the message matches.  (Refuted: once the abort
\* timer has fired, makeRequest throws a timeout error in place of whatever
\* the call threw, and the timeout error is retryable.)
C21_AuthNeverRetried ==
    [][\A i \in Invs : \A raw \in RawErrors :
          ("auth" \in raw.pats /\ RespondError(i, raw)) => pc'[i] # "Backoff"]_vars

\* What the code does keep of C21: handleUnknownError makes a non-retryable
\* error of every message that matches an auth pattern.
C21_AuthClassifiedFatal ==
    (classified # NoError /\ "auth" \in rawError.pats) =>
        /\ classified.kind = "AuthError"
        /\ ~isRetryableError(classified)

\* And in the retry loop such an error is not retried unless the abort timer
\* had fired before the call threw.
C21_AuthRetriedOnlyAfterAbort ==
    [][\A i \in Invs : \A raw \in RawErrors :
          ("auth" \in raw.pats /\ RespondError(i, raw) /\ ~aborted[i])
              => pc'[i] # "Backoff"]_vars

\* The polynomial rolling hash of the first n characters, 31 * hash + charCode
\* modulo 2^32, by multiplication.
RefStep(w, c) ==
    LET lo1 == w.lo * 31 + c
        hi1 == w.hi * 31 + lo1 \div Half
    IN  Word(hi1 % Half, lo1 % Half)

RECURSIVE RefHash(_, _)
RefHash(str, n) == IF n = 0 THEN Word(0, 0) ELSE RefStep(RefHash(str, n - 1), str[n])

\* The magnitude of a word read as a signed 32-bit integer, modulo n: the
\* unsigned value u leaves r16 * hi + lo, where r16 is what 2^16 leaves, and
\* the magnitude of a negative one is 2^32 - u.
RefMagnitudeMod(w, n) ==
    LET r16 == 65536 % n
        u == ((w.hi % n) * r16 + (w.lo % n)) % n
    IN  IF w.hi >= 32768 THEN (((r16 * r16) % n) + n - u) % n ELSE u

RefBucket(m) ==
    IF m \in 0..3 THEN "easy" ELSE IF m \in 4..7 THEN "medium" ELSE "hard"

C22_NegativeHashAssigned ==
    /\ dateIn # MinHashString
    /\ IsNegative(RefHash(dateIn, Len(dateIn)))
    /\ Len(assigned) = MaxCalls

\* C23: getChallengeFromPool with the index hashString(date) returns, for a
\* difficulty whose pool is not empty, the entry at position index mod
\* pool.length, and the same entry on every call; for an empty pool it throws.
C23_SelectWrapsAround ==
    \A n \in 1..Len(selected) :
        LET pool == poolIn[selected[n].difficulty]
            entry == selected[n].entry
            at == RefMagnitudeMod(RefHash(dateIn, Len(dateIn)), Len(pool))
        IN  /\ entry = selected[1].entry
            /\ IF Len(pool) = 0 THEN entry = NoChallengesAvailable
               ELSE /\ at \in 0..(Len(pool) - 1)
                    /\ entry = pool[at + 1]
                    /\ entry # NoChallengesAvailable

\* C23 witness: a negative hash selected the same entry of a pool twice, and
\* not the first one.
C23_Witness ==
    /\ IsNegative(RefHash(dateIn, Len(dateIn)))
    /\ Len(selected) = MaxCalls
    /\ poolIn[selected[1].difficulty] # <<>>
    /\ selected[1].entry # poolIn[selected[1].difficulty][1]
    /\ selected[2].entry = selected[1].entry

\* The emptied pool was selected from, and the call threw.
C23_EmptyPoolThrew ==
    /\ selected # <<>>
    /\ poolIn[selected[1].difficulty] = <<>>
    /\ selected[1].entry = NoChallengesAvailable

\* C24: every entry of the static pool passes the rules for generated content
\* (no error from the validator, delimiters balanced) and its startingContent
\* differs from its content after whitespace normalization.  (Refuted: three
\* entries of the hard pool match a forbidden pattern.)
C24_PoolEntriesValid ==
    (checked /\ selected # <<>>) =>
        /\ validation.isValid
        /\ validation.errors = {}
        /\ isValidJavaScriptSyntax(parsed.content)
        /\ Squeeze(parsed.startingContent) # Squeeze(parsed.content)

\* What the pool does keep of C24: the only error any entry has is a
\* forbidden pattern, in three of the hard entries; every entry has balanced
\* delimiters and a startingContent that differs from its content.
C24_PoolEntriesNearlyValid ==
    (checked /\ selected # <<>>) =>
        /\ validation.errors \subseteq {"forbidden pattern"}
        /\ validation.errors # {} =>
              selected[1].entry.title \in {"Data Structure - Binary Tree",
                                           "Design Pattern - Event Emitter",
                                           "Utility Function - Debounce"}
        /\ isValidJavaScriptSyntax(parsed.content)
        /\ Squeeze(parsed.startingContent) # Squeeze(parsed.content)

\* The kind of the first pattern group of an order that a message matches,
\* Unclassified if it matches none.
PatternKind ==
    [auth |-> "AuthError", rate |-> "RateLimit", model |-> "InvalidModel",
     safety |-> "SafetyBlocked", network |-> "Network", json |-> "InvalidResponse",
     google |-> "Unclassified"]

EarliestKind(order, pats) ==
    IF \A n \in 1..Len(order) : order[n] \notin pats THEN "Unclassified"
    ELSE PatternKind[order[CHOOSE n \in 1..Len(order) :
                               /\ order[n] \in pats
                               /\ \A o \in 1..(n - 1) : order[o] \notin pats]]

\* C29 as stated: handleUnknownError returns the kind of the earliest match
\* in the order RateLimit, AuthError, InvalidModel, SafetyBlocked,
\* Network/Timeout, InvalidResponse, Unclassified.  (Refuted: the auth
\* patterns are tested first.)
C29_RateLimitFirst ==
    classified # NoError =>
        classified.kind =
            EarliestKind(<<"rate", "auth", "model", "safety", "network", "json", "google">>,
                         rawError.pats)

\* C29 amended: handleUnknownError returns the kind of the earliest match in
\* the order AuthError, RateLimit, InvalidModel, SafetyBlocked,
\* Network/Timeout, InvalidResponse, Unclassified.
C29_AuthFirst ==
    classified # NoError =>
        classified.kind =
            EarliestKind(<<"auth", "rate", "model", "safety", "network", "json", "google">>,
                         rawError.pats)

\* C29 witness: a message that matches the auth, rate-limit and network
\* patterns was classified, as an auth error.
C29_Witness ==
    /\ rawError.pats = {"auth", "rate", "network"}
    /\ classified.kind = "AuthError"

\* What a strategy's extraction comes to once trimmed and rid of trailing
\* commas, and whether that is a well-formed payload.
Cleaned(text, n) == RemoveTrailingCommas(trim(strategies(text)[n]))
YieldsPayload(text, n) == strategies(text)[n] # <<>> /\ IsJson(Cleaned(text, n))

\* What of a parse result the caller sees: all but the strategy used.
Decoded(out) == [status |-> out.status, error |-> out.error, fields |-> out.fields,
                 last |-> out.last]

\* The values are within the bounds of the schema, both ends included.
WithinBounds(fields) ==
    /\ fields.title \in MinTitle..MaxTitle
    /\ fields.startingContent \in MinContent..MaxContent
    /\ fields.content \in MinContent..MaxContent
    /\ fields.explanation = Absent \/ fields.explanation \in 0..MaxExplanation

\* C25: a well-formed payload is decoded to the same content whether it comes
\* in a tagged fenced block, in a bare fenced block or as raw text.  (Refuted:
\* a raw payload whose string holds a tagged fence and a later fence is cut
\* at those by the third strategy, and the parse fails.)
C25_WrappersAgree ==
    \A w \in {"tagged", "bare", "raw"} :
        (parseOut # NotParsed /\ IsJson(payloadIn) /\ textIn = Wrap(w, payloadIn)) =>
            \A other \in {"tagged", "bare", "raw"} :
                Decoded(parseResponse(Wrap(other, payloadIn), fieldsIn)) = Decoded(parseOut)

\* What the code does keep of C25: the three wrappings of a well-formed
\* payload that holds no fence are decoded to the same content.
C25_WrappersAgreeWithoutFence ==
    \A w \in {"tagged", "bare", "raw"} :
        (parseOut # NotParsed /\ IsJson(payloadIn) /\ textIn = Wrap(w, payloadIn)
         /\ \A k \in 1..Len(payloadIn) : payloadIn[k] # Fence) =>
            \A other \in {"tagged", "bare", "raw"} :
                Decoded(parseResponse(Wrap(other, payloadIn), fieldsIn)) = Decoded(parseOut)

\* The fenced wrappings of a payload with fences in its string were returned.
C25_FencedWrappingReturned ==
    /\ textIn = Wrap("tagged", payloadIn)
    /\ \E k \in 1..Len(payloadIn) : payloadIn[k] = Fence
    /\ parseOut.status = "returned"
    /\ parseResponse(payloadIn, fieldsIn).status = "threw"

C26_LowerBoundsReturned ==
    /\ parseOut.status = "returned"
    /\ parseOut.fields.title = MinTitle
    /\ parseOut.fields.startingContent = MinContent
    /\ parseOut.fields.content = MinContent
C26_PastBoundRefused ==
    /\ parseOut.status = "threw"
    /\ textIn = PlainPayload
    /\ fieldsIn = [TypicalFields EXCEPT !.explanation = MaxExplanation + 1]

\* C30 as stated: the strategies are tried in order and parseResponse throws
\* only when none of the five yields a well-formed payload.  (Refuted: the
\* first strategy that extracts anything decides; when what it extracted is
\* not well-formed the later strategies are not tried.)
C30_ThrowsOnlyWhenNoStrategyYields ==
    (parseOut.status = "threw" /\ geminiChallengeResponseSchema(fieldsIn)) =>
        \A n \in 1..5 : ~YieldsPayload(textIn, n)

\* C30 amended: the strategy used is the first of the five, in their order,
\* that extracts a non-empty text; parseResponse returns that text's payload
\* when, trimmed and rid of trailing commas, it is well-formed and within the
\* bounds, and throws an invalid-response error otherwise and when no
\* strategy extracts anything.
C30_FirstExtractionDecides ==
    parseOut # NotParsed =>
        /\ \A o \in 1..5 : o < parseOut.strategy => strategies(textIn)[o] = <<>>
        /\ IF parseOut.strategy = 0
           THEN \A n \in 1..5 : strategies(textIn)[n] = <<>>
           ELSE strategies(textIn)[parseOut.strategy] # <<>>
        /\ parseOut.status = "returned" <=>
              /\ parseOut.strategy # 0
              /\ YieldsPayload(textIn, parseOut.strategy)
              /\ geminiChallengeResponseSchema(fieldsIn)
        /\ parseOut.status = "returned" =>
              parseOut.last = LastString(Cleaned(textIn, parseOut.strategy))
        /\ parseOut.status = "threw" => parseOut.error = ErrInvalidResponse

\* C30 witness: a tagged block with prose before the payload was refused on
\* what the first strategy extracted, though the fourth yields the payload.
C30_Witness ==
    /\ textIn = Wrap("taggedProse", PlainPayload)
    /\ parseOut.status = "threw"
    /\ parseOut.strategy = 1
    /\ YieldsPayload(textIn, 4)

\* Each of the five strategies was the one used for a returned payload, but
\* the fifth, which the fourth always precedes on a payload.
C30_EachStrategyReturned ==
    /\ parseOut.status = "returned"
    /\ parseOut.strategy = 3
    /\ parseResponse(Wrap("tagged", payloadIn), fieldsIn).strategy = 1
    /\ parseResponse(Wrap("bare", payloadIn), fieldsIn).strategy = 2
    /\ parseResponse(Wrap("raw", payloadIn), fieldsIn).strategy = 4

\* C28: once an invocation has completed, the state shared between
\* invocations, the cached client apart, is as it was: the statistics of the
\* service are those of a process that has served nothing.  (Refuted: every
\* request is counted in this.stats of the cached service, and counted again
\* as a success or a failure.)
C28_SharedStateUnchanged ==
    (\A i \in Invs : Finished(i)) => stats = NoStats

\* What the code does keep of C28: the statistics are written by requests
\* only (an invocation that issues none leaves them alone), and they count
\* each request once and each settled request as a success or a failure.
C28_StatsCountRequests ==
    /\ ~isGeminiEnabled => stats = NoStats
    /\ stats.totalRequests = stats.successfulGenerations + stats.failures
            + Cardinality({i \in Invs : pc[i] = "Requesting"})
    /\ (\A i \in Invs : pc[i] = "Idle") => (stats = NoStats /\ ~configValidated)

\* The flag of validateConfig is written too, by the first invocation, even
\* one that issues no request.
C28_ConfigValidatedWritten ==
    /\ \A i \in Invs : Finished(i)
    /\ stats = NoStats
    /\ configValidated

\* C27: a health check issues at most one probe, none when the service is
\* not configured, and never runs the static fallback; once done it has
\* reported disabled when not configured, healthy when its probe succeeded
\* and unhealthy when its probe failed, and it has not thrown to its caller.
C27_OneProbeNoFallback ==
    /\ \A d \in Dates : fallbacks[d].runs = 0
    /\ \A h \in Checks :
          /\ health[h].probes <= 1
          /\ health[h].probes = 0 <=> health[h].probe = "none"
          /\ ~health[h].raised
          /\ (health[h].via = "facade" /\ ~isGeminiEnabled) => health[h].probes = 0
          /\ (health[h].via = "service" /\ ~health[h].keyed) => health[h].probes = 0
          /\ health[h].pc = "Done" =>
                /\ ((health[h].via = "facade" /\ ~isGeminiEnabled)
                    \/ (health[h].via = "service" /\ ~health[h].keyed))
                       => health[h].status = "disabled"
                /\ health[h].probe = "succeeded" => health[h].status = "healthy"
                /\ health[h].probe = "failed" => health[h].status = "unhealthy"
                /\ health[h].status \in {"disabled", "healthy", "unhealthy"}

\* A probe, once settled, is not issued again.
C27_NeverRetries ==
    [][\A h \in Checks :
          health[h].probe \in {"succeeded", "failed"} => health'[h] = health[h]]_vars

\* C27 witness: one check found its probe failed after the abort timer had
\* fired and reported unhealthy, another reported healthy; one probe each.
C27_Witness ==
    \E h, g \in Checks :
        /\ health[h].pc = "Done" /\ health[h].probe = "failed" /\ health[h].aborted
        /\ health[h].status = "unhealthy" /\ health[h].probes = 1
        /\ health[g].pc = "Done" /\ health[g].probe = "succeeded"
        /\ health[g].status = "healthy" /\ health[g].probes = 1

\* A check of a process that is not configured reported disabled with no probe.
C27_DisabledWithoutProbe ==
    \E h \in Checks :
        /\ health[h].pc = "Done" /\ health[h].via = "facade" /\ ~isGeminiEnabled
        /\ health[h].status = "disabled" /\ health[h].probes = 0

\* --------------------------- ChallengeService.generateTodaysChallenge
\* Everything but the variables of the sections below.
coreVars ==
    <<config, orchVars, srvVars, genVars, cliVars, clsVars, schedVars, parseVars, statVars,
      healthVars>>

InitCore ==
    /\ InitOrch /\ InitServer(Date_2025_01_02) /\ InitNoText /\ InitNoCallers
    /\ InitNoParse /\ InitNoStats /\ InitNoHealth /\ InitNoRaw /\ InitNoDate

\* An optional boolean member of the options object: absent, false or true.
OptBooleans == {"unset", "false", "true"}

\* JS truthiness of such a member: undefined and false are falsy.
Truthy(member) == member = "true"

\* this.config.preferAI && isAIEnabled() && !options.forceAI === false:
\* ! binds tighter than ===, so the last operand is (!options.forceAI) === false.
TriesAI(preferAI, forceAI) ==
    preferAI /\ isGeminiEnabled /\ ((~Truthy(forceAI)) = FALSE)

\* fullOptions.allowFallback: config.enableFallback unless ...options
\* carries a member of its own.
FullAllowFallback(call) ==
    IF call.allowFallback = "unset" THEN call.enableFallback ELSE Truthy(call.allowFallback)

\* A service with any configuration is called with any options.
InitService ==
    /\ InitConfig /\ InitCore /\ InitNoGenCalls /\ InitNoDb /\ InitNoLocal
    /\ svc \in [pc : {"Called"}, preferAI : BOOLEAN, enableFallback : BOOLEAN,
                forceAI : OptBooleans, allowFallback : OptBooleans,
                triedAI : {FALSE}, aiFailed : {FALSE}, source : {"none"}]

\* The test of line 81: into the try block, or straight to the static pool.
ServiceDecide ==
    /\ svc.pc = "Called"
    /\ svc' = IF TriesAI(svc.preferAI, svc.forceAI)
              THEN [svc EXCEPT !.pc = "AwaitAI", !.triedAI = TRUE]
              ELSE [svc EXCEPT !.pc = "Returned", !.source = "static"]
    /\ UNCHANGED <<coreVars, statCallVars, dbVars, localVars>>

\* await this.generateAIChallenge(fullOptions) resolves: its result is returned.
ServiceAIResolved ==
    /\ svc.pc = "AwaitAI"
    /\ svc' = [svc EXCEPT !.pc = "Returned", !.source = "ai"]
    /\ UNCHANGED <<coreVars, statCallVars, dbVars, localVars>>

\* It rejects: the static challenge if fullOptions.allowFallback, else rethrown.
ServiceAIRejected ==
    /\ svc.pc = "AwaitAI"
    /\ svc' = IF FullAllowFallback(svc)
              THEN [svc EXCEPT !.pc = "Returned", !.aiFailed = TRUE, !.source = "static"]
              ELSE [svc EXCEPT !.pc = "Threw", !.aiFailed = TRUE]
    /\ UNCHANGED <<coreVars, statCallVars, dbVars, localVars>>

NextService == ServiceDecide \/ ServiceAIResolved \/ ServiceAIRejected

SpecService == InitService /\ [][NextService]_vars

\* ------------------------ generateChallenge and resetStats on one service
\* What the steps below leave alone.
exceptStats ==
    <<config, orchVars, srvVars, genVars, cliVars, clsVars, schedVars, parseVars,
      configValidated, healthVars, svcVars, dbVars, localVars>>

\* A constructed service (it has its API key); nothing has called it yet.
InitStats ==
    /\ cfgEnabled \in BOOLEAN /\ hasApiKey = TRUE /\ enableFallback \in BOOLEAN
    /\ InitCore /\ InitNoSvc /\ InitNoGenCalls /\ InitNoDb /\ InitNoLocal

\* generateChallenge up to its first await: this.stats.totalRequests++.
GenerateChallengeEntered(c) ==
    /\ genCalls[c] = "Idle"
    /\ genCalls' = [genCalls EXCEPT ![c] = "InFlight"]
    /\ stats' = [stats EXCEPT !.totalRequests = @ + 1]
    /\ UNCHANGED exceptStats

\* The request, the parse and the validation went through: updateStats(t, true).
GenerateChallengeResolved(c) ==
    /\ genCalls[c] = "InFlight"
    /\ genCalls' = [genCalls EXCEPT ![c] = "Resolved"]
    /\ stats' = updateStats(stats, TRUE)
    /\ UNCHANGED exceptStats

\* One of them threw: the catch block runs updateStats(t, false) and rethrows.
GenerateChallengeRejected(c) ==
    /\ genCalls[c] = "InFlight"
    /\ genCalls' = [genCalls EXCEPT ![c] = "Rejected"]
    /\ stats' = updateStats(stats, FALSE)
    /\ UNCHANGED exceptStats

\* resetStats(): this.stats becomes a record of zeros, whatever is in flight.
resetStats ==
    /\ stats' = NoStats
    /\ UNCHANGED <<genCalls, exceptStats>>

NextStats ==
    \/ \E c \in GenCalls :
          GenerateChallengeEntered(c) \/ GenerateChallengeResolved(c) \/ GenerateChallengeRejected(c)
    \/ resetStats

SpecStats == InitStats /\ [][NextStats]_vars

\* ----------------- the procedures that write challenges and attempts
\* What the steps below leave alone.
exceptDb ==
    <<today, reqPc, reqChallenge, response, config, orchVars, genVars, cliVars, clsVars,
      schedVars, parseVars, statVars, healthVars, svcVars, statCallVars, localVars>>

Procs == 1..MaxProcs

Users == {"ann"}

\* input.timeMs: a positive number.
TimesMs == {900, 1500}

NoAttempt == [user_id |-> "none", challenge_id |-> <<>>, time_ms |-> 0]

\* A procedure call: its inputs, where it stands, and what it answered.
ProcCall(kind, at, user, challenge, timeMs, status, attempt) ==
    [kind |-> kind, pc |-> at, userId |-> user, challenge |-> challenge, timeMs |-> timeMs,
     status |-> status, attempt |-> attempt]

NoProc == ProcCall("none", "Idle", "none", NoChallenge, 0, "none", NoAttempt)

\* The challenges a client holds: what getTodaysChallenge has answered.
Received == {response[r] : r \in {q \in Reqs : reqPc[q] = "Done"}}

\* db.challenge.upsert of ensureChallenge: a row with the id has its
\* content, title and difficulty overwritten; without one a row is created,
\* which the unique index on date can refuse.
ensureChallenge(challengeId, challengeDate, content, title, level) ==
    IF \E x \in store : x.id = challengeId
    THEN [ok |-> TRUE,
          rows |-> {IF x.id = challengeId
                    THEN [x EXCEPT !.content = content, !.title = title, !.difficulty = level]
                    ELSE x : x \in store}]
    ELSE LET row == [id |-> challengeId, date |-> challengeDate, starting_content |-> "null",
                     content |-> content, title |-> title, difficulty |-> level]
         IN  IF Conflicts(row) THEN [ok |-> FALSE, rows |-> store]
             ELSE [ok |-> TRUE, rows |-> store \cup {row}]

\* challenge_attempts: unique on (user_id, challenge_id), and challenge_id
\* references a challenges row.
AttemptRow(user, challengeId, timeMs) ==
    [user_id |-> user, challenge_id |-> challengeId, time_ms |-> timeMs]

AttemptsOf(user, challengeId) ==
    {a \in attemptRows : a.user_id = user /\ a.challenge_id = challengeId}

\* submitCompletion up to the attempt upsert: the static challenge of the
\* day is computed, ensureUser runs, and ensureChallenge writes that
\* challenge's content, title and difficulty under the submitted id.
\* (dbOk = FALSE: one of the two threw.)
SubmitEnsure(p, user, ch, timeMs, dbOk) ==
    /\ procs[p].pc = "Idle"
    /\ LET todaysChallenge == ChallengeService_generateTodaysChallenge(today)
           ensured == ensureChallenge(ch.id, ch.date, todaysChallenge.content,
                                      todaysChallenge.title, todaysChallenge.difficulty)
       IN  IF dbOk /\ ensured.ok
           THEN /\ store' = ensured.rows
                /\ procs' = [procs EXCEPT ![p] =
                        ProcCall("submit", "Upserting", user, ch, timeMs, "none", NoAttempt)]
           ELSE /\ store' = store
                /\ procs' = [procs EXCEPT ![p] =
                        ProcCall("submit", "Done", user, ch, timeMs, "error", NoAttempt)]
    /\ UNCHANGED <<attemptRows, exceptDb>>

\* db.challengeAttempt.upsert settles: the user's attempt at the submitted
\* id is created or has its time replaced.
SubmitUpsert(p, dbOk) ==
    /\ procs[p].pc = "Upserting" /\ procs[p].kind = "submit"
    /\ LET call == procs[p]
           row == AttemptRow(call.userId, call.challenge.id, call.timeMs)
       IN  IF dbOk /\ \E x \in store : x.id = call.challenge.id
           THEN /\ attemptRows' = (attemptRows \ AttemptsOf(call.userId, call.challenge.id))
                                      \cup {row}
                /\ procs' = [procs EXCEPT ![p].pc = "Done", ![p].status = "success",
                                          ![p].attempt = row]
           ELSE /\ attemptRows' = attemptRows
                /\ procs' = [procs EXCEPT ![p].pc = "Done", ![p].status = "error"]
    /\ UNCHANGED <<store, exceptDb>>

\* getUserAttempt: the attempt of the user at the id of the static challenge
\* of the day, or null (also when the query threw).
GetUserAttempt(p, user, dbOk) ==
    /\ procs[p].pc = "Idle"
    /\ LET todaysChallenge == ChallengeService_generateTodaysChallenge(today)
           found == IF dbOk THEN AttemptsOf(user, todaysChallenge.id) ELSE {}
       IN  procs' = [procs EXCEPT ![p] =
                IF found = {}
                THEN ProcCall("getUserAttempt", "Done", user, NoChallenge, 0, "null", NoAttempt)
                ELSE ProcCall("getUserAttempt", "Done", user, NoChallenge, 0, "attempt",
                              CHOOSE a \in found : TRUE)]
    /\ UNCHANGED <<store, attemptRows, exceptDb>>

\* migrateLocalData with one local attempt, up to its findFirst: ensureUser,
\* then ensureChallenge with an empty content and the title Migrated
\* Challenge.  A failure of ensureChallenge is collected and the call goes on.
MigrateEnsure(p, user, ch, timeMs, dbOk) ==
    /\ procs[p].pc = "Idle"
    /\ LET ensured == ensureChallenge(ch.id, ch.date, "", "Migrated Challenge", ch.difficulty)
       IN  IF dbOk /\ ensured.ok
           THEN /\ store' = ensured.rows
                /\ procs' = [procs EXCEPT ![p] =
                        ProcCall("migrate", "Inserting", user, ch, timeMs, "none", NoAttempt)]
           ELSE /\ store' = store
                /\ procs' = [procs EXCEPT ![p] =
                        ProcCall("migrate", "Done", user, ch, timeMs,
                                 IF dbOk THEN "collected" ELSE "error", NoAttempt)]
    /\ UNCHANGED <<attemptRows, exceptDb>>

\* findFirst and create: the attempt is inserted unless the user has one at
\* the id; an error is collected.
MigrateInsert(p, dbOk) ==
    /\ procs[p].pc = "Inserting" /\ procs[p].kind = "migrate"
    /\ LET call == procs[p]
           row == AttemptRow(call.userId, call.challenge.id, call.timeMs)
       IN  IF ~dbOk \/ ~\E x \in store : x.id = call.challenge.id
           THEN /\ attemptRows' = attemptRows
                /\ procs' = [procs EXCEPT ![p].pc = "Done", ![p].status = "collected"]
           ELSE IF AttemptsOf(call.userId, call.challenge.id) # {}
           THEN /\ attemptRows' = attemptRows
                /\ procs' = [procs EXCEPT ![p].pc = "Done", ![p].status = "success"]
           ELSE /\ attemptRows' = attemptRows \cup {row}
                /\ procs' = [procs EXCEPT ![p].pc = "Done", ![p].status = "success",
                                          ![p].attempt = row]
    /\ UNCHANGED <<store, exceptDb>>

\* regenerateTodaysChallenge up to the generation: deleteMany of the rows
\* of today, and with them (ON DELETE CASCADE) their attempts.
RegenerateDelete(p, dbOk) ==
    /\ procs[p].pc = "Idle"
    /\ IF dbOk
       THEN LET gone == {x \in store : x.date = today}
            IN  /\ store' = store \ gone
                /\ attemptRows' = {a \in attemptRows : \A x \in gone : a.challenge_id # x.id}
                /\ procs' = [procs EXCEPT ![p] =
                        ProcCall("regenerate", "Generating", "none", NoChallenge, 0, "none",
                                 NoAttempt)]
       ELSE /\ UNCHANGED <<store, attemptRows>>
            /\ procs' = [procs EXCEPT ![p] =
                    ProcCall("regenerate", "Done", "none", NoChallenge, 0, "error", NoAttempt)]
    /\ UNCHANGED exceptDb

\* What the generation of regenerateTodaysChallenge can end with: the
\* orchestrator's outcomes when generation is enabled (with or without
\* forceAI), else the challenge service's static challenge.
RegenerateOutcomes ==
    IF isGeminiEnabled THEN OrchestratorOutcomes(today)
    ELSE {Returned(Result(ChallengeService_generateTodaysChallenge(today), "static", 0, FALSE))}

\* The generation settles with o.
RegenerateGenerated(p, o) ==
    /\ procs[p].pc = "Generating" /\ procs[p].kind = "regenerate"
    /\ procs' = [procs EXCEPT ![p] =
            IF o.status = "returned"
            THEN [@ EXCEPT !.pc = "Creating", !.challenge = o.result.challenge]
            ELSE [@ EXCEPT !.pc = "Done", !.status = "error"]]
    /\ UNCHANGED <<store, attemptRows, exceptDb>>

\* db.challenge.create of the new challenge (no starting_content is given).
RegenerateCreate(p, dbOk) ==
    /\ procs[p].pc = "Creating" /\ procs[p].kind = "regenerate"
    /\ LET row == [Row(procs[p].challenge) EXCEPT !.starting_content = "null"]
       IN  IF dbOk /\ ~Conflicts(row)
           THEN /\ store' = store \cup {row}
                /\ procs' = [procs EXCEPT ![p].pc = "Done", ![p].status = "success"]
           ELSE /\ store' = store
                /\ procs' = [procs EXCEPT ![p].pc = "Done", ![p].status = "error"]
    /\ UNCHANGED <<attemptRows, exceptDb>>

\* One client fetches the challenge of the day while the procedures run.
NextStore ==
    \/ ReqStart(1)
    \/ \E dbOk \in BOOLEAN : FindDone(1, dbOk) \/ StoreDone(1, dbOk) \/ StaticStoreDone(1, dbOk)
    \/ \E o \in OrchestratorOutcomes(today) : GenDone(1, o)
    \/ \E p \in Procs, dbOk \in BOOLEAN :
          \/ \E user \in Users, ch \in Received, timeMs \in TimesMs :
                SubmitEnsure(p, user, ch, timeMs, dbOk) \/ MigrateEnsure(p, user, ch, timeMs, dbOk)
          \/ SubmitUpsert(p, dbOk)
          \/ MigrateInsert(p, dbOk)
          \/ \E user \in Users : GetUserAttempt(p, user, dbOk)
          \/ RegenerateDelete(p, dbOk)
          \/ RegenerateCreate(p, dbOk)
    \/ \E p \in Procs, o \in RegenerateOutcomes : RegenerateGenerated(p, o)

\* The procedures serving one date, from empty tables.
InitStore ==
    /\ \E d \in Dates : InitServer(d)
    /\ cfgEnabled \in BOOLEAN /\ hasApiKey = TRUE /\ enableFallback \in BOOLEAN
    /\ InitOrch /\ InitNoText /\ InitNoCallers /\ InitNoParse /\ InitNoStats
    /\ InitNoHealth /\ InitNoRaw /\ InitNoDate /\ InitNoSvc /\ InitNoGenCalls /\ InitNoLocal
    /\ attemptRows = {}
    /\ procs = [p \in Procs |-> NoProc]

SpecStore == InitStore /\ [][NextStore]_vars

\* ------------------------------------------------- saveLocalCompletion
\* What the steps below leave alone.
exceptLocal == <<coreVars, svcVars, statCallVars, dbVars>>

\* Time is counted in half hours from 2025-10-01T00:00Z, over the last
\* quarter of 2025.
HalfHoursPerDay == 2 * 24

HourOf(day, hour) == day * HalfHoursPerDay + 2 * hour

HalfPast(day, hour) == HourOf(day, hour) + 1

\* Days of October, November and December; day numbers of the first of
\* November and of December.
MonthLengths == <<31, 30, 31>>

FirstOfNovember == MonthLengths[1]
FirstOfDecember == MonthLengths[1] + MonthLengths[2]

\* Two decimal digits, as char codes.
Digits2(k) == <<48 + (k \div 10), 48 + (k % 10)>>

\* date.toISOString().split("T")[0]: the UTC calendar date of an instant,
\* as the string YYYY-MM-DD.
toISODate(t) ==
    LET day == t \div HalfHoursPerDay
        month == IF day < FirstOfNovember THEN 10 ELSE IF day < FirstOfDecember THEN 11 ELSE 12
        dayOfMonth == IF day < FirstOfNovember THEN day + 1
                      ELSE IF day < FirstOfDecember THEN day - FirstOfNovember + 1
                      ELSE day - FirstOfDecember + 1
    IN  <<50, 48, 50, 53, 45>> \o Digits2(month) \o <<45>> \o Digits2(dayOfMonth)

\* The time zones of the browser: UTC, and one that leaves daylight saving
\* time on 2025-11-02 at 06:00Z (UTC-4 before, UTC-5 after).
Zones == {"UTC", "America/New_York"}

DstEnd == HourOf(FirstOfNovember + 1, 6)

\* Local wall-clock time of an instant, and the instant of a wall-clock time.
LocalTime(zone, t) ==
    IF zone = "UTC" THEN t ELSE IF t < DstEnd THEN t - 2 * 4 ELSE t - 2 * 5

FromLocalTime(zone, wall) ==
    IF zone = "UTC" THEN wall ELSE IF wall + 2 * 4 < DstEnd THEN wall + 2 * 4 ELSE wall + 2 * 5

\* thirtyDaysAgo.setDate(thirtyDaysAgo.getDate() - 30): the day of the month
\* is a field of local time, so the result is the instant with the same
\* wall-clock time 30 calendar days earlier.
thirtyDaysAgo(zone, t) == FromLocalTime(zone, LocalTime(zone, t) - 30 * HalfHoursPerDay)

cutoffDate(zone, t) == toISODate(thirtyDaysAgo(zone, t))

\* a >= b on strings: by the first code unit that differs, else by length.
StringGeq(a, b) ==
    LET common == IF Len(a) < Len(b) THEN Len(a) ELSE Len(b)
        differs == {i \in 1..common : a[i] # b[i]}
    IN  IF differs = {} THEN Len(a) >= Len(b)
        ELSE LET first == CHOOSE i \in differs : \A j \in differs : i <= j
             IN  a[first] > b[first]

\* The instants at which the page is used, and the challenge dates it saves.
Instants == {HourOf(14, 12), HourOf(FirstOfNovember + 13, 23), HalfPast(FirstOfNovember + 14, 0),
             HourOf(FirstOfNovember + 14, 12)}

SaveDates == {toISODate(HourOf(14, 0)), toISODate(HourOf(15, 0)), toISODate(HourOf(FirstOfNovember + 14, 0))}

\* attempts.findIndex(a => a.challengeDate === challengeDate), counted from
\* 1; 0 when there is none.
IndexOfDate(list, challengeDate) ==
    LET hits == {i \in 1..Len(list) : list[i].challengeDate = challengeDate}
    IN  IF hits = {} THEN 0 ELSE CHOOSE i \in hits : \A j \in hits : i <= j

\* attempts.filter(a => a.challengeDate >= cutoffDate).
RECURSIVE FilterFrom(_, _)
FilterFrom(list, cutoff) ==
    IF list = <<>> THEN <<>>
    ELSE (IF StringGeq(Head(list).challengeDate, cutoff) THEN <<Head(list)>> ELSE <<>>)
            \o FilterFrom(Tail(list), cutoff)

\* saveLocalCompletion(challengeId, challengeDate, timeMs, difficulty): the
\* attempt replaces the one of its date or is appended, the list is filtered
\* by the cutoff date and written back.
saveLocalCompletion(challengeId, challengeDate, timeMs, level) ==
    /\ LET existingIndex == IndexOfDate(localStored, challengeDate)
           newAttempt == [challengeId |-> challengeId, challengeDate |-> challengeDate,
                          completedAt |-> clock.now, timeMs |-> timeMs, difficulty |-> level]
           updated == IF existingIndex > 0
                      THEN [localStored EXCEPT ![existingIndex] = newAttempt]
                      ELSE Append(localStored, newAttempt)
       IN  localStored' = FilterFrom(updated, cutoffDate(clock.zone, clock.now))
    /\ UNCHANGED <<clock, exceptLocal>>

\* Time passes between two uses of the page.
ClockAdvances ==
    /\ \E t \in Instants : t > clock.now /\ clock' = [clock EXCEPT !.now = t]
    /\ UNCHANGED <<localStored, exceptLocal>>

NextLocal ==
    \/ \E challengeDate \in SaveDates, timeMs \in TimesMs :
          saveLocalCompletion("daily", challengeDate, timeMs, "easy")
    \/ ClockAdvances

\* A browser in one of the zones, with nothing stored (the server's
\* configuration plays no part).
InitLocal ==
    /\ cfgEnabled = FALSE /\ hasApiKey = FALSE /\ enableFallback = TRUE
    /\ InitCore /\ InitNoSvc /\ InitNoGenCalls /\ InitNoDb
    /\ localStored = <<>>
    /\ clock \in [now : {HourOf(14, 12)}, zone : Zones]

SpecLocal == InitLocal /\ [][NextLocal]_vars

\* C34: the orchestrator's getDifficultyForDate and the challenge service's
\* return the same difficulty for every date string.  (Refuted: one takes
\* the hash modulo 10 against 4 and 8, the other modulo 1000 against 400 and
\* 800, and the last digit of the hash does not decide its last three.)
C34_SameDifficulty ==
    (assigned # <<>> /\ serviceAssigned # <<>>) => assigned[1] = serviceAssigned[1]

\* What the code does keep of C34: each function returns the same difficulty
\* on every call, and both read the same hash.
C34_EachDeterministic ==
    /\ \A n \in 1..Len(serviceAssigned) :
          /\ serviceAssigned[n] = serviceAssigned[1]
          /\ serviceAssigned[n] =
                (LET m == RefMagnitudeMod(RefHash(dateIn, Len(dateIn)), 1000)
                 IN  IF m < 400 THEN "easy" ELSE IF m < 800 THEN "medium" ELSE "hard")
    /\ \A n \in 1..Len(assigned) : assigned[n] = assigned[1]

\* A calendar date was given both difficulties, and they differ.
C34_DateDiffers ==
    /\ dateIn \in Dates
    /\ assigned # <<>> /\ serviceAssigned # <<>>
    /\ assigned[1] # serviceAssigned[1]

\* C35: ChallengeService.generateTodaysChallenge tries AI first whenever AI
\* is preferred and enabled, for every value of forceAI including unset.
\* (Refuted: the test reads (!options.forceAI) === false, which holds only
\* for a truthy forceAI.)
C35_AIFirstWhenPreferred ==
    (svc.pc \in {"Returned", "Threw"} /\ svc.preferAI /\ isGeminiEnabled) => svc.triedAI

\* What the code does keep of C35: AI is tried exactly when it is preferred,
\* enabled and forced, and a static result after a try means that the try
\* failed with fallback allowed.
C35_AIOnlyWhenForced ==
    svc.pc \in {"AwaitAI", "Returned", "Threw"} =>
        /\ svc.triedAI <=> (svc.preferAI /\ isGeminiEnabled /\ svc.forceAI = "true")
        /\ (svc.triedAI /\ svc.source = "static") => (svc.aiFailed /\ FullAllowFallback(svc))
        /\ svc.pc = "Threw" => (svc.aiFailed /\ ~FullAllowFallback(svc))

\* A default service with AI enabled, called without forceAI, returned the
\* static challenge without a try.
C35_StaticThoughPreferred ==
    /\ svc.pc = "Returned" /\ svc.preferAI /\ svc.enableFallback /\ isGeminiEnabled
    /\ svc.forceAI = "unset" /\ ~svc.triedAI /\ svc.source = "static"

\* C37: successfulGenerations + failures never exceeds totalRequests, with
\* equality when no generateChallenge call is in flight, for any
\* interleaving of generateChallenge and resetStats calls.  (Refuted: a
\* reset while a call is in flight zeroes totalRequests, and the call still
\* counts itself as a success or a failure when it settles.)
C37_SettledWithinRequests ==
    /\ stats.successfulGenerations + stats.failures <= stats.totalRequests
    /\ (\A c \in GenCalls : genCalls[c] # "InFlight") =>
          stats.successfulGenerations + stats.failures = stats.totalRequests

\* Requests counted and neither settled nor in flight.
C37_Surplus ==
    stats.totalRequests - stats.successfulGenerations - stats.failures
        - Cardinality({c \in GenCalls : genCalls[c] = "InFlight"})

\* What the code does keep of C37: every step of a generateChallenge call
\* leaves the surplus as it is (zero until the first reset), and a reset
\* lowers it by the number of calls in flight.
C37_CallsKeepSurplus ==
    [][/\ genCalls' # genCalls => C37_Surplus' = C37_Surplus
       /\ C37_Surplus' <= 0]_vars

\* A call settled after a reset: one failure counted against no request.
C37_SettledAfterReset ==
    /\ \E c \in GenCalls : genCalls[c] = "Rejected"
    /\ \A c \in GenCalls : genCalls[c] # "InFlight"
    /\ stats.failures = 1 /\ stats.totalRequests = 0

\* C33: the store holds at most one challenge row per calendar date, for any
\* interleaving of getTodaysChallenge and regenerateTodaysChallenge requests
\* (and of the procedures that upsert challenges).
C33_OneRowPerDate ==
    \A x \in store, y \in store : x.date = y.date => x = y

\* A request stored its challenge for the day, and a regeneration that came
\* to create another one for the same day ended in an error: one row is left.
C33_SecondCreateEndsInError ==
    \E p \in Procs, r \in Reqs, x \in store :
        /\ procs[p].kind = "regenerate" /\ procs[p].pc = "Done" /\ procs[p].status = "error"
        /\ procs[p].challenge # NoChallenge /\ procs[p].challenge.id # x.id
        /\ reqPc[r] = "Done" /\ response[r].id = x.id /\ x.date = today

\* The first step of a submitCompletion or migrateLocalData call.
C31_EnsureStep ==
    \E p \in Procs : procs[p].pc = "Idle" /\ procs'[p].kind \in {"submit", "migrate"}

\* C31: a stored challenge keeps its content, title and difficulty through
\* every submitCompletion and migrateLocalData call that references its id.
\* (Refuted: ensureChallenge upserts, and its update branch writes the three
\* columns from the caller's arguments.)
C31_StoredChallengeKept ==
    [][C31_EnsureStep =>
          \A x \in store : \E y \in store' :
              /\ y.id = x.id /\ y.content = x.content
              /\ y.title = x.title /\ y.difficulty = x.difficulty]_vars

\* What the code does keep of C31: these calls delete no row, keep every
\* row's id, date and starting_content, and leave the rows of other ids as
\* they are.
C31_OtherColumnsKept ==
    [][C31_EnsureStep =>
          /\ \A x \in store : \E y \in store' :
                y.id = x.id /\ y.date = x.date /\ y.starting_content = x.starting_content
          /\ \A p \in Procs : procs'[p] # procs[p] =>
                \A x \in store : x.id # procs'[p].challenge.id => x \in store']_vars

\* A generated row holds a content that no generation produced: the static
\* content of the day after a submission, or the empty one after a migration.
C31_GeneratedRowOverwritten ==
    \E x \in store : x.id[2] = "gemini" /\ x.content \notin GenContents

\* The attempts a user holds at the challenges getTodaysChallenge answered.
C32_Submitted(user) ==
    {a \in attemptRows : a.user_id = user /\ \E ch \in Received : a.challenge_id = ch.id}

\* C32: once submitCompletion has succeeded for the challenge that
\* getTodaysChallenge answered, getUserAttempt answers that attempt, whether
\* the challenge was generated or static.  (Refuted: getUserAttempt looks
\* the attempt up under the id of the challenge service's static challenge.)
C32_AttemptFound ==
    [][\A p \in Procs, user \in Users :
          (GetUserAttempt(p, user, TRUE) /\ C32_Submitted(user) # {}) =>
              (procs'[p].status = "attempt" /\ procs'[p].attempt \in C32_Submitted(user))]_vars

\* What the code does keep of C32: the attempt is found exactly when it is
\* stored under the static id of the day, and then with its challenge id
\* and time.
C32_FoundUnderStaticId ==
    [][\A p \in Procs, user \in Users :
          GetUserAttempt(p, user, TRUE) =>
              LET id == ChallengeService_generateTodaysChallenge(today).id
              IN  IF \E a \in attemptRows : a.user_id = user /\ a.challenge_id = id
                  THEN /\ procs'[p].status = "attempt"
                       /\ procs'[p].attempt \in attemptRows
                       /\ procs'[p].attempt.challenge_id = id
                  ELSE procs'[p].status = "null"]_vars

\* The UTC day number that a stored date string names.
C36_DayOf(str) == CHOOSE day \in 0..(FirstOfDecember + 30) : toISODate(HourOf(day, 0)) = str

\* C36: after every saveLocalCompletion call the list holds at most one
\* attempt per challenge date, and no attempt whose date is more than 30
\* days before the time of the save.  (Refuted for the second part: the
\* cutoff is taken 30 days back in local time and formatted in UTC.)
C36_OnePerDateWithin30Days ==
    [][\A challengeDate \in SaveDates, timeMs \in TimesMs :
          saveLocalCompletion("daily", challengeDate, timeMs, "easy") =>
              /\ \A i, j \in 1..Len(localStored') :
                    localStored'[i].challengeDate = localStored'[j].challengeDate => i = j
              /\ \A i \in 1..Len(localStored') :
                    C36_DayOf(localStored'[i].challengeDate) + 30 >= clock.now \div HalfHoursPerDay]_vars

\* What the code does keep of C36: one attempt per date in every state, a
\* save leaves its attempt in the place of the one it replaces, and no
\* stored date is more than 31 days before the save (30 where the clock
\* does not shift).
C36_OnePerDate ==
    \A i, j \in 1..Len(localStored) :
        localStored[i].challengeDate = localStored[j].challengeDate => i = j

C36_Within31Days ==
    [][\A challengeDate \in SaveDates, timeMs \in TimesMs :
          saveLocalCompletion("daily", challengeDate, timeMs, "easy") =>
              \A i \in 1..Len(localStored') :
                  LET age == clock.now \div HalfHoursPerDay - C36_DayOf(localStored'[i].challengeDate)
                  IN  age <= (IF clock.zone = "UTC" THEN 30 ELSE 31)]_vars

\* A repeated save for a date replaced the earlier entry.
C36_Replaced ==
    \E i \in 1..Len(localStored) :
        /\ localStored[i].completedAt > HourOf(14, 12)
        /\ localStored[i].challengeDate = toISODate(HourOf(FirstOfNovember + 14, 0))
        /\ Len(localStored) = 1

\* An attempt dated 31 days before the save survives it.
C36_KeptAfter31Days ==
    \E i, j \in 1..Len(localStored) :
        /\ localStored[j].completedAt = clock.now
        /\ clock.now \div HalfHoursPerDay - C36_DayOf(localStored[i].challengeDate) = 31

====
